---- MODULE Spec2Model ----
(***************************************************************************)
(* Trading journal: the record collection kept by useTrades and the        *)
(* derived views computed by Dashboard (summary statistics, equity curve,  *)
(* weekly / daily / day-of-week series, filtered and sorted table), and   *)
(* the creation form TradeForm, the saved form of the collection, and the  *)
(* analyses of geminiService, SlSweepAnalyzer and ChatAnalyzer.            *)
(*                                                                         *)
(* Conventions of the model                                                *)
(*   - an optional field is a sequence: << >> is undefined, <<v>> is v;    *)
(*   - a date string "YYYY-MM-DD" is the number of that day counted from   *)
(*     1970-01-01 (day 0, a Thursday); a Date object is its instant in     *)
(*     hours since the epoch; tz is the offset local time - UTC in hours;  *)
(*   - a JS number that results from a division is an exact rational       *)
(*     <<numerator, denominator>> in lowest terms (rounding of IEEE        *)
(*     doubles is not modelled);                                           *)
(*   - a text produced by toFixed(1) is the number of tenths it shows;     *)
(*   - a text that is split, parsed or trimmed is a sequence of            *)
(*     one-character strings.                                              *)
(***************************************************************************)
EXTENDS Integers, Sequences, FiniteSets, TLC

VARIABLES
    trades,      \* useTrades: the record collection
    tz,          \* environment: offset of local time from UTC, in hours
    filters,     \* Dashboard: the filter inputs
    sortConfig,  \* Dashboard: sort key and direction
    apiKey,      \* environment: whether process.env.API_KEY is set
    sweep,       \* SlSweepAnalyzer: component state and the requests in flight
    currentView, \* App: the view shown
    activeTab,   \* AiAnalyzer: the tab shown
    localStorage,\* browser: the item 'trades' and the room the origin has
    console,     \* browser: the messages logged since the page was loaded
    chat,        \* ChatAnalyzer: component state and the requests in flight
    form         \* TradeForm: component state and the file reads in flight

vars == <<trades, tz, filters, sortConfig, apiKey, sweep, currentView, activeTab,
          localStorage, console, chat, form>>

(***************************************************************************)
(* Bounds                                                                  *)
(***************************************************************************)
MaxTrades == 2

MaxOutcomeTrades == 3

MaxStored == 2

MaxSeriesTrades == 2

MaxSeriesDay == 3

MaxRangeTrades == 1

MaxRange == 21

MaxSortTrades == 2

MaxViewTrades == 1

MaxOrphans == 1

MaxPrompts == 1

MaxReads == 2
MaxPersistTrades == 2
MaxPersistDay == 1
MaxQuota == 1

MaxSweepTrades == 3

MaxStatsDay == 1

MaxCalTrades == 2

MaxDay == 7

MaxSize == 2

MaxRR == 2

MaxTz == 1

(***************************************************************************)
(* Record model (types.ts)                                                 *)
(***************************************************************************)
TP == "TP"

SL == "SL"

BE == "BE"

NO_TRADE == "NO_TRADE"

Outcome == {TP, SL, BE, NO_TRADE}

BUY == "BUY"

SELL == "SELL"

TradeType == {BUY, SELL}

undefined == << >>

Some(v) == <<v>>

IsSet(x) == x # undefined

Val(x) == x[1]

\* JS truthiness of an optional number: defined and not 0
Truthy(x) == IsSet(x) /\ Val(x) # 0

(***************************************************************************)
(* Exact rationals for JS numbers                                          *)
(***************************************************************************)
Abs(n) == IF n < 0 THEN -n ELSE n

RECURSIVE GCD(_, _)
GCD(a, b) == IF b = 0 THEN a ELSE GCD(b, a % b)

\* the rational n/d in lowest terms, d > 0
Rat(n, d) == LET g == GCD(Abs(n), d) IN <<n \div g, d \div g>>

RatInt(n) == <<n, 1>>

RatAdd(a, b) == Rat(a[1] * b[2] + b[1] * a[2], a[2] * b[2])

\* a / n for an integer n > 0
RatDivInt(a, n) == Rat(a[1], a[2] * n)

RatZero == RatInt(0)

(***************************************************************************)
(* JS Date                                                                  *)
(***************************************************************************)
\* new Date("YYYY-MM-DD"): a date-only string is UTC midnight of that day
NewDate(dateStr) == dateStr * 24

\* toISOString().split('T')[0]: the UTC calendar day of the instant
ToISODate(t) == t \div 24

\* getUTCFullYear / getUTCMonth / getUTCDate taken together
UTCDateParts(t) == t \div 24

\* getUTCDay(): 0 = Sunday .. 6 = Saturday; day 0 is a Thursday
GetUTCDay(t) == ((t \div 24) + 4) % 7

\* the local calendar day and local hour of an instant
LocalDay(t) == (t + tz) \div 24

LocalHour(t) == (t + tz) % 24

\* getDay(): the weekday of the local calendar day
GetDay(t) == (LocalDay(t) + 4) % 7

\* new Date(year, month, day): local midnight of the given calendar day
NewLocalDate(day) == day * 24 - tz

\* date.setDate(date.getDate() - k): k local days back, local time kept
SetDateBack(t, k) == (LocalDay(t) - k) * 24 + LocalHour(t) - tz

(***************************************************************************)
(* Generic helpers                                                          *)
(***************************************************************************)
Range(s) == {s[i] : i \in DOMAIN s}

\* Array.prototype.sort(compareFn), compareFn given as its table over the
\* elements of the array: stable, an
\* element goes before the first one it compares less than 0 with
StableSort(s, compareFn) ==
    LET RECURSIVE InsertSorted(_, _)
        InsertSorted(r, x) ==
            IF r = << >> THEN <<x>>
            ELSE IF compareFn[x, Head(r)] < 0 THEN <<x>> \o r
            ELSE <<Head(r)>> \o InsertSorted(Tail(r), x)
        RECURSIVE Sorted(_)
        Sorted(r) ==
            IF r = << >> THEN << >>
            ELSE InsertSorted(Sorted(SubSeq(r, 1, Len(r) - 1)), r[Len(r)])
    IN Sorted(s)

(***************************************************************************)
(* TradeForm.handleSubmit: the record handed to addTrade                   *)
(***************************************************************************)
TradeData(date, outcome, type, slSize, tpSize, rr) ==
    IF outcome # NO_TRADE
    THEN [date |-> date, outcome |-> outcome, notes |-> "", rangeSize |-> undefined,
          images |-> {}, type |-> Some(type), slSize |-> slSize, tpSize |-> tpSize,
          rr |-> rr, activationTime |-> undefined, slSweepNotes |-> undefined]
    ELSE [date |-> date, outcome |-> outcome, notes |-> "", rangeSize |-> undefined,
          images |-> {}, type |-> undefined, slSize |-> undefined, tpSize |-> undefined,
          rr |-> undefined, activationTime |-> undefined, slSweepNotes |-> undefined]

\* the fields of the form left empty by TradeData: rangeSize as the number
\* parsed, activationTime and slSweepNotes as the texts of their inputs
\* ('' and the empty text become undefined)
TradeDataWith(tradeData, rangeSize, activationTime, slSweepNotes) ==
    IF tradeData.outcome # NO_TRADE
    THEN [tradeData EXCEPT
            !.rangeSize = rangeSize,
            !.activationTime = IF activationTime # "" THEN Some(activationTime)
                               ELSE undefined,
            !.slSweepNotes = IF slSweepNotes # << >> THEN Some(slSweepNotes)
                             ELSE undefined]
    ELSE [tradeData EXCEPT !.rangeSize = rangeSize]

(***************************************************************************)
(* useTrades                                                               *)
(***************************************************************************)
\* an id no record of the collection carries (timestamp + Math.random())
NewId(ts) == CHOOSE n \in 1..(Len(ts) + 1) :
                /\ \A i \in DOMAIN ts : ts[i].id # n
                /\ \A m \in 1..(n - 1) : \E i \in DOMAIN ts : ts[i].id = m

WithId(tradeData, id) ==
    [id |-> id, date |-> tradeData.date, outcome |-> tradeData.outcome,
     notes |-> tradeData.notes, rangeSize |-> tradeData.rangeSize,
     images |-> tradeData.images, type |-> tradeData.type,
     slSize |-> tradeData.slSize, tpSize |-> tradeData.tpSize, rr |-> tradeData.rr,
     activationTime |-> tradeData.activationTime,
     slSweepNotes |-> tradeData.slSweepNotes]

\* the comparison with a and b exchanged
DateDesc_Ascending(s) ==
    [a \in Range(s), b \in Range(s) |-> NewDate(a.date) - NewDate(b.date)]

\* (a, b) => new Date(b.date).getTime() - new Date(a.date).getTime()
DateDesc(s) == [a \in Range(s), b \in Range(s) |-> NewDate(b.date) - NewDate(a.date)]

\* null, like undefined, is the absent value of an optional
null == << >>

\* the keys of a record: JSON.stringify leaves out a key whose value is
\* undefined, and reading a key that is not there gives undefined
RequiredKeys == {"id", "date", "outcome", "notes", "images"}

OptionalKeys ==
    {"rangeSize", "type", "slSize", "tpSize", "rr", "activationTime", "slSweepNotes"}

\* JSON.stringify(trades): a text, given by the objects it lists, each
\* with the keys it writes
JSONStringify(ts) ==
    [readable |-> TRUE,
     objects |->
        [i \in DOMAIN ts |->
            [key \in RequiredKeys \cup {k \in OptionalKeys : IsSet(ts[i][k])} |->
                IF key \in RequiredKeys THEN ts[i][key] ELSE Val(ts[i][key])]]]

\* a text that is not JSON
Unreadable == [readable |-> FALSE, objects |-> << >>]

\* JSON.parse(text): throws on a text that is not JSON, else the records
JSONParse(text) ==
    [threw |-> ~text.readable,
     value |->
        [i \in DOMAIN text.objects |->
            [key \in RequiredKeys \cup OptionalKeys |->
                IF key \in RequiredKeys THEN text.objects[i][key]
                ELSE IF key \in DOMAIN text.objects[i]
                THEN Some(text.objects[i][key])
                ELSE undefined]]]

ReadError == "Error reading trades from localStorage"

SaveError == "Error saving trades to localStorage"

\* the useState initializer that never reads the stored item
initialTrades_Ignored(item) == << >>

\* the useState initializer, item being localStorage.getItem('trades')
initialTrades(item) ==
    IF item = null THEN << >>
    ELSE IF JSONParse(Val(item)).threw THEN << >>
    ELSE JSONParse(Val(item)).value

\* the messages the initializer logs
initialConsole(item) ==
    IF item # null /\ JSONParse(Val(item)).threw THEN {ReadError} ELSE {}

\* the room a collection takes in the storage: its records and their images
StorageSize(ts) ==
    LET RECURSIVE Sum(_)
        Sum(n) == IF n = 0 THEN 0 ELSE Sum(n - 1) + 1 + Cardinality(ts[n].images)
    IN Sum(Len(ts))

\* localStorage.setItem('trades', ...) throws when the text does not fit
SetItemThrows(storage, ts) ==
    IsSet(storage.quota) /\ StorageSize(ts) > Val(storage.quota)

\* the save effect that writes nothing
savedStorage_Skipped(storage, ts) == storage

\* the save effect: the storage after it ran for the collection ts
savedStorage(storage, ts) ==
    IF SetItemThrows(storage, ts) THEN storage
    ELSE [storage EXCEPT !.trades = Some(JSONStringify(ts))]

\* useEffect(..., [trades]): runs after the render a setTrades caused
SaveEffect ==
    /\ localStorage' = savedStorage(localStorage, trades')
    /\ console' = IF SetItemThrows(localStorage, trades')
                  THEN console \cup {SaveError} ELSE console

\* the two setters of the hook: what they do to the collection
addTrade(tradeData) ==
    trades' = LET appended == Append(trades, WithId(tradeData, NewId(trades)))
              IN StableSort(appended, DateDesc(appended))

\* the filter dropping the record at index id
withoutTrade_AtIndex(prevTrades, id) ==
    LET kept == {k \in DOMAIN prevTrades : k # id}
        nth(n) == CHOOSE k \in kept : Cardinality({m \in kept : m <= k}) = n
    IN [n \in 1..Cardinality(kept) |-> prevTrades[nth(n)]]

\* prevTrades.filter(trade => trade.id !== id)
withoutTrade(prevTrades, id) ==
    SelectSeq(prevTrades, LAMBDA trade : trade.id # id)

deleteTrade(id) ==
    trades' = withoutTrade(trades, id)

(***************************************************************************)
(* Dashboard: summary statistics                                           *)
(***************************************************************************)
\* statsTradeRR returning the override for a losing trade too
statsTradeRR_OverrideForLoss(trade) ==
    IF IsSet(trade.rr) THEN RatInt(Val(trade.rr))
    ELSE IF trade.outcome = TP /\ Truthy(trade.slSize) /\ Truthy(trade.tpSize)
            /\ Val(trade.slSize) > 0
    THEN Rat(Val(trade.tpSize), Val(trade.slSize))
    ELSE IF trade.outcome = SL THEN RatInt(-1)
    ELSE RatZero

\* the amount one step of the totalRREarned reduce adds to its accumulator
statsTradeRR(trade) ==
    IF IsSet(trade.rr)
    THEN (IF trade.outcome = SL THEN RatInt(-1) ELSE RatInt(Val(trade.rr)))
    ELSE IF trade.outcome = TP /\ Truthy(trade.slSize) /\ Truthy(trade.tpSize)
            /\ Val(trade.slSize) > 0
    THEN Rat(Val(trade.tpSize), Val(trade.slSize))
    ELSE IF trade.outcome = SL THEN RatInt(-1)
    ELSE RatZero

\* totalRREarned reduced over all records, NO_TRADE included
totalRREarnedOf_All(ts) ==
    LET RECURSIVE Reduce(_, _)
        Reduce(acc, i) ==
            IF i > Len(ts) THEN acc
            ELSE Reduce(RatAdd(acc, statsTradeRR(ts[i])), i + 1)
    IN Reduce(RatZero, 1)

\* .filter(t => t.outcome !== NO_TRADE).reduce(..., 0)
totalRREarnedOf(ts) ==
    LET counted == SelectSeq(ts, LAMBDA t : t.outcome # NO_TRADE)
        RECURSIVE Reduce(_, _)
        Reduce(acc, i) ==
            IF i > Len(counted) THEN acc
            ELSE Reduce(RatAdd(acc, statsTradeRR(counted[i])), i + 1)
    IN Reduce(RatZero, 1)

\* x.toFixed(1) for x >= 0, as the number of tenths shown (ties round up)
ToFixed1(x) == (20 * x[1] + x[2]) \div (2 * x[2])

\* winRate taken over all trades instead of wins + losses
winRateOf_OverTotal(totalTrades, wins, losses) ==
    IF totalTrades > 0 /\ wins + losses > 0
    THEN ToFixed1(Rat(wins * 100, totalTrades))
    ELSE 0

winRateOf(totalTrades, wins, losses) ==
    IF totalTrades > 0 /\ wins + losses > 0
    THEN ToFixed1(Rat(wins * 100, wins + losses))
    ELSE 0

\* totalTrades counting NO_TRADE records too
totalTradesOf_All(ts) == Len(ts)

\* trades.filter(t => t.outcome !== Outcome.NO_TRADE).length
totalTradesOf(ts) == Len(SelectSeq(ts, LAMBDA t : t.outcome # NO_TRADE))

\* averageRR without the division
averageRROf_Total(totalRREarned, totalTrades) ==
    IF totalTrades > 0 THEN totalRREarned ELSE RatZero

\* totalTrades > 0 ? totalRREarned / totalTrades : 0
averageRROf(totalRREarned, totalTrades) ==
    IF totalTrades > 0 THEN RatDivInt(totalRREarned, totalTrades) ELSE RatZero

statsOf(ts) ==
    LET totalTrades == totalTradesOf(ts)
        wins == Len(SelectSeq(ts, LAMBDA t : t.outcome = TP))
        losses == Len(SelectSeq(ts, LAMBDA t : t.outcome = SL))
        breakEvens == Len(SelectSeq(ts, LAMBDA t : t.outcome = BE))
        totalRREarned == totalRREarnedOf(ts)
    IN [totalTrades |-> totalTrades,
        wins |-> wins,
        losses |-> losses,
        breakEvens |-> breakEvens,
        winRate |-> winRateOf(totalTrades, wins, losses),
        totalRREarned |-> totalRREarned,
        averageRR |-> averageRROf(totalRREarned, totalTrades)]

stats == statsOf(trades)

\* the outcome distribution: the entries with a positive value
outcomeData ==
    SelectSeq(<<[name |-> "Take Profit", value |-> stats.wins],
                [name |-> "Stop Loss", value |-> stats.losses],
                [name |-> "Break Even", value |-> stats.breakEvens],
                [name |-> "No Trade Days",
                 value |-> Len(SelectSeq(trades, LAMBDA t : t.outcome = NO_TRADE))]>>,
              LAMBDA d : d.value > 0)

(***************************************************************************)
(* Dashboard: calendar keys of a record                                    *)
(***************************************************************************)
\* new Date(trade.date).toISOString().split('T')[0]
dayKeyOf(trade) == ToISODate(NewDate(trade.date))

\* firstDay = new Date(date.setDate(date.getDate() - date.getDay()))
weekKeyOf(trade) ==
    LET date == NewDate(trade.date)
        firstDay == SetDateBack(date, GetDay(date))
    IN ToISODate(firstDay)

\* new Date(getUTCFullYear(), getUTCMonth(), getUTCDate()).getUTCDay()
dayIndexOf(trade) ==
    LET date == NewDate(trade.date)
        utcDate == NewLocalDate(UTCDateParts(date))
    IN GetUTCDay(utcDate)

\* the dayOfWeek filter of filteredAndSortedTrades, value "0".."6"
dayOfWeekFilter(trade, dayOfWeek) == dayIndexOf(trade) = dayOfWeek

(***************************************************************************)
(* Dashboard: filter and sort state                                        *)
(***************************************************************************)
\* the option values of the range select, as texts
RangeAll == <<"a", "l", "l">>

\* useState({startDate: '', endDate: '', outcome: 'all', ...}); '' is undefined
initialFilters ==
    [startDate |-> undefined, endDate |-> undefined, outcome |-> "all",
     type |-> "all", rangeSize |-> RangeAll, dayOfWeek |-> "all"]

initialSortConfig == [key |-> "date", direction |-> "descending"]

Digits == <<"0", "1", "2", "3", "4", "5", "6", "7", "8", "9">>

\* n.toString() for 0 <= n <= 9
NumberToString(n) == Digits[n + 1]

\* text.split('-')
SplitDash(text) ==
    LET RECURSIVE Split(_, _, _)
        Split(i, current, parts) ==
            IF i > Len(text) THEN Append(parts, current)
            ELSE IF text[i] = "-" THEN Split(i + 1, << >>, Append(parts, current))
            ELSE Split(i + 1, Append(current, text[i]), parts)
    IN Split(1, << >>, << >>)

\* parseFloat of a non-empty text of decimal digits
ParseFloat(text) ==
    LET RECURSIVE Parse(_, _)
        Parse(i, acc) ==
            IF i > Len(text) THEN acc
            ELSE Parse(i + 1, 10 * acc + (CHOOSE d \in 0..9 : Digits[d + 1] = text[i]))
    IN Parse(1, 0)

\* the values of rangeOptions: 'all', '0-5', '5-10', '10-20', '20-'
rangeOptions ==
    << RangeAll,
       <<"0", "-", "5">>,
       <<"5", "-", "1", "0">>,
       <<"1", "0", "-", "2", "0">>,
       <<"2", "0", "-">> >>

\* the upper bound of a bucket without one
Infinity == << >>

\* the range predicate with the upper bound included
rangeSizeFilter_Closed(trade, option) ==
    LET parts == SplitDash(option)
        min == ParseFloat(parts[1])
        max == IF parts[2] # << >> THEN Some(ParseFloat(parts[2])) ELSE Infinity
    IN IF ~IsSet(trade.rangeSize) THEN FALSE
       ELSE /\ Val(trade.rangeSize) >= min
            /\ (max = Infinity \/ Val(trade.rangeSize) <= Val(max))

\* the predicate of the rangeSize filter for an option other than 'all'
rangeSizeFilter(trade, option) ==
    LET parts == SplitDash(option)
        min == ParseFloat(parts[1])
        max == IF parts[2] # << >> THEN Some(ParseFloat(parts[2])) ELSE Infinity
    IN IF ~IsSet(trade.rangeSize) THEN FALSE
       ELSE /\ Val(trade.rangeSize) >= min
            /\ (max = Infinity \/ Val(trade.rangeSize) < Val(max))

\* filteredTrades before it is sorted: the filters applied in turn
filteredTrades ==
    LET byStart == IF IsSet(filters.startDate)
                   THEN SelectSeq(trades, LAMBDA t :
                            NewDate(t.date) >= NewDate(Val(filters.startDate)))
                   ELSE trades
        byEnd == IF IsSet(filters.endDate)
                 THEN SelectSeq(byStart, LAMBDA t :
                          NewDate(t.date) <= NewDate(Val(filters.endDate)))
                 ELSE byStart
        byOutcome == IF filters.outcome # "all"
                     THEN SelectSeq(byEnd, LAMBDA t : t.outcome = filters.outcome)
                     ELSE byEnd
        byType == IF filters.type # "all"
                  THEN SelectSeq(byOutcome, LAMBDA t : t.type = Some(filters.type))
                  ELSE byOutcome
        byRange == IF filters.rangeSize # RangeAll
                   THEN SelectSeq(byType, LAMBDA t : rangeSizeFilter(t, filters.rangeSize))
                   ELSE byType
    IN IF filters.dayOfWeek # "all"
       THEN SelectSeq(byRange, LAMBDA t :
                NumberToString(dayIndexOf(t)) = filters.dayOfWeek)
       ELSE byRange

\* the keys of the sortable table headers
SortableKeys == {"date", "activationTime", "type", "outcome", "rr", "rangeSize"}

\* a[sortConfig.key], as an optional
ValueOf(trade, key) ==
    IF key \in {"date", "outcome"} THEN Some(trade[key]) ELSE trade[key]

\* the texts of the sortable columns in the order localeCompare gives them
Collation == <<"09:00", "10:30", "BE", "BUY", "NO_TRADE", "SELL", "SL", "TP">>

LocaleCompare(a, b) ==
    LET Rank(text) == CHOOSE i \in DOMAIN Collation : Collation[i] = text
    IN IF Rank(a) < Rank(b) THEN -1 ELSE IF Rank(a) > Rank(b) THEN 1 ELSE 0

\* the comparator with the direction applied to absent values too
compareTrades_NullsByDirection(a, b, config) ==
    LET aValue == ValueOf(a, config.key)
        bValue == ValueOf(b, config.key)
        comparison ==
            IF ~IsSet(aValue) THEN 1
            ELSE IF ~IsSet(bValue) THEN -1
            ELSE IF config.key = "date"
            THEN NewDate(Val(aValue)) - NewDate(Val(bValue))
            ELSE IF config.key \in {"rr", "rangeSize"}
            THEN Val(aValue) - Val(bValue)
            ELSE LocaleCompare(Val(aValue), Val(bValue))
    IN IF config.direction = "descending" THEN -comparison ELSE comparison

\* the comparator handed to filteredTrades.sort
compareTrades(a, b, config) ==
    LET aValue == ValueOf(a, config.key)
        bValue == ValueOf(b, config.key)
    IN IF ~IsSet(aValue) THEN 1
       ELSE IF ~IsSet(bValue) THEN -1
       ELSE LET comparison ==
                    IF config.key = "date"
                    THEN NewDate(Val(aValue)) - NewDate(Val(bValue))
                    ELSE IF config.key \in {"rr", "rangeSize"}
                    THEN Val(aValue) - Val(bValue)
                    ELSE LocaleCompare(Val(aValue), Val(bValue))
            IN IF config.direction = "descending" THEN -comparison ELSE comparison

SortCompare(s, config) ==
    [a \in Range(s), b \in Range(s) |-> compareTrades(a, b, config)]

\* compareTrades answers 1 for two records without a value whichever is
\* first, so it is not a consistent comparator and the order sort leaves
\* such records in is implementation-defined.  Two insertion sorts stand
\* for the engines: one asks compareFn(later, earlier) and moves the later
\* element left on a negative answer (StableSort), the other asks
\* compareFn(earlier, later) and moves it left on a positive answer.
SortEngines == {"laterFirst", "earlierFirst"}

ArraySort(engine, s, compareFn) ==
    LET RECURSIVE InsertSorted(_, _)
        InsertSorted(r, x) ==
            IF r = << >> THEN <<x>>
            ELSE IF compareFn[r[Len(r)], x] > 0
            THEN Append(InsertSorted(SubSeq(r, 1, Len(r) - 1), x), r[Len(r)])
            ELSE Append(r, x)
        RECURSIVE Sorted(_)
        Sorted(r) ==
            IF r = << >> THEN << >>
            ELSE InsertSorted(Sorted(SubSeq(r, 1, Len(r) - 1)), r[Len(r)])
    IN IF engine = "laterFirst" THEN StableSort(s, compareFn) ELSE Sorted(s)

\* the sort step of the table applied to a sequence of records
sortTrades(engine, s, config) == ArraySort(engine, s, SortCompare(s, config))

filteredAndSortedTrades(engine) == sortTrades(engine, filteredTrades, sortConfig)

handleFilterChange(name, value) ==
    /\ currentView = "dashboard"
    /\ filters' = [filters EXCEPT ![name] = value]
    /\ UNCHANGED <<trades, tz, sortConfig, apiKey, sweep, currentView, activeTab,
                   localStorage, console, chat, form>>

resetFilters ==
    /\ currentView = "dashboard"
    /\ filters' = initialFilters
    /\ UNCHANGED <<trades, tz, sortConfig, apiKey, sweep, currentView, activeTab,
                   localStorage, console, chat, form>>

\* the requested configuration never turning to descending
requestedSortConfig_AlwaysAscending(config, key) ==
    [key |-> key, direction |-> "ascending"]

\* the { key, direction } requestSort hands to setSortConfig
requestedSortConfig(config, key) ==
    [key |-> key,
     direction |-> IF config.key = key /\ config.direction = "ascending"
                   THEN "descending" ELSE "ascending"]

requestSort(key) ==
    /\ currentView = "dashboard"
    /\ sortConfig' = requestedSortConfig(sortConfig, key)
    /\ UNCHANGED <<trades, tz, filters, apiKey, sweep, currentView, activeTab,
                   localStorage, console, chat, form>>

\* the Delete button of a row of the table
DeleteTrade ==
    /\ currentView = "dashboard"
    /\ \E i \in DOMAIN filteredTrades : deleteTrade(filteredTrades[i].id)
    /\ SaveEffect
    /\ UNCHANGED <<tz, filters, sortConfig, apiKey, sweep, currentView, activeTab,
                   chat, form>>

(***************************************************************************)
(* Dashboard: series                                                       *)
(***************************************************************************)
\* position of the entry with the given key, 0 when there is none
IndexOfKey(entries, key) ==
    IF \E i \in DOMAIN entries : entries[i].name = key
    THEN CHOOSE i \in DOMAIN entries : entries[i].name = key
    ELSE 0

\* (a, b) => new Date(a.name).getTime() - new Date(b.name).getTime()
\* the series comparator with its operands swapped: descending
NameAsc_Swapped(s) == [a \in Range(s), b \in Range(s) |-> NewDate(b.name) - NewDate(a.name)]

NameAsc(s) == [a \in Range(s), b \in Range(s) |-> NewDate(a.name) - NewDate(b.name)]

\* (a, b) => new Date(a.date).getTime() - new Date(b.date).getTime()
DateAsc(s) == [a \in Range(s), b \in Range(s) |-> NewDate(a.date) - NewDate(b.date)]

weeklyWinRateDataOf(ts) ==
    LET RECURSIVE Weeks(_)
        Weeks(n) ==
            IF n = 0 THEN << >>
            ELSE LET prev == Weeks(n - 1)
                     trade == ts[n]
                     weekKey == weekKeyOf(trade)
                     i == IndexOfKey(prev, weekKey)
                     base == IF i = 0 THEN Append(prev, [name |-> weekKey, wins |-> 0, losses |-> 0])
                             ELSE prev
                     j == IF i = 0 THEN Len(base) ELSE i
                 IN IF trade.outcome = TP
                    THEN [base EXCEPT ![j].wins = @ + 1]
                    ELSE IF trade.outcome = SL
                    THEN [base EXCEPT ![j].losses = @ + 1]
                    ELSE prev
        WinRate(data) ==
            IF data.wins + data.losses > 0
            THEN Rat(data.wins * 100, data.wins + data.losses)
            ELSE RatZero
        entries == Weeks(Len(ts))
        mapped == [i \in DOMAIN entries |->
                     [name |-> entries[i].name, winRate |-> WinRate(entries[i]),
                      wins |-> entries[i].wins, losses |-> entries[i].losses]]
    IN StableSort(mapped, NameAsc(mapped))

weeklyWinRateData == weeklyWinRateDataOf(trades)

dailyTpslDataOf(ts) ==
    LET RECURSIVE Days(_)
        Days(n) ==
            IF n = 0 THEN << >>
            ELSE LET prev == Days(n - 1)
                     trade == ts[n]
                     dayKey == dayKeyOf(trade)
                     i == IndexOfKey(prev, dayKey)
                     base == IF i = 0 THEN Append(prev, [name |-> dayKey, TP |-> 0, SL |-> 0])
                             ELSE prev
                     j == IF i = 0 THEN Len(base) ELSE i
                 IN IF trade.outcome = TP
                    THEN [base EXCEPT ![j].TP = @ + 1]
                    ELSE IF trade.outcome = SL
                    THEN [base EXCEPT ![j].SL = @ + 1]
                    ELSE prev
        entries == Days(Len(ts))
    IN StableSort(entries, NameAsc(entries))

dailyTpslData == dailyTpslDataOf(trades)

\* curveTradeRR testing the override for truthiness: an override of 0 is skipped
curveTradeRR_TruthyOverride(trade) ==
    IF Truthy(trade.rr)
    THEN (IF trade.outcome = SL THEN RatInt(-1) ELSE RatInt(Val(trade.rr)))
    ELSE IF trade.outcome = TP /\ Truthy(trade.tpSize) /\ Truthy(trade.slSize)
            /\ Val(trade.slSize) > 0
    THEN Rat(Val(trade.tpSize), Val(trade.slSize))
    ELSE IF trade.outcome = SL THEN RatInt(-1)
    ELSE RatZero

\* curveTradeRR returning the override for a losing trade too
curveTradeRR_OverrideForLoss(trade) ==
    IF IsSet(trade.rr) THEN RatInt(Val(trade.rr))
    ELSE IF trade.outcome = TP /\ Truthy(trade.tpSize) /\ Truthy(trade.slSize)
            /\ Val(trade.slSize) > 0
    THEN Rat(Val(trade.tpSize), Val(trade.slSize))
    ELSE IF trade.outcome = SL THEN RatInt(-1)
    ELSE RatZero

\* the tradeRR computed for one record inside cumulativeRRData
curveTradeRR(trade) ==
    IF IsSet(trade.rr)
    THEN (IF trade.outcome = SL THEN RatInt(-1) ELSE RatInt(Val(trade.rr)))
    ELSE IF trade.outcome = TP /\ Truthy(trade.tpSize) /\ Truthy(trade.slSize)
            /\ Val(trade.slSize) > 0
    THEN Rat(Val(trade.tpSize), Val(trade.slSize))
    ELSE IF trade.outcome = SL THEN RatInt(-1)
    ELSE RatZero

\* names of the points of the equity curve
StartName == <<"Start">>

DayName(day) == <<"day", day>>

\* the chart data returned without the starting point
PrependStart_Missing(chartData) == chartData

\* Step 4: [{ name: 'Start', 'Cumulative R/R': 0 }, ...chartData]
PrependStart(chartData) == <<[name |-> StartName, value |-> RatZero]>> \o chartData

cumulativeRRDataOf(ts) ==
    LET counted == SelectSeq(ts, LAMBDA t : t.outcome # NO_TRADE)
        sortedTrades == StableSort(counted, DateAsc(counted))
        \* the Map dailyData as its entries in insertion order
        RECURSIVE DailyData(_)
        DailyData(n) ==
            IF n = 0 THEN << >>
            ELSE LET prev == DailyData(n - 1)
                     trade == sortedTrades[n]
                     dayKey == dayKeyOf(trade)
                     tradeRR == curveTradeRR(trade)
                     i == IndexOfKey(prev, dayKey)
                 IN IF i = 0
                    THEN Append(prev, [name |-> dayKey, rr |-> RatAdd(RatZero, tradeRR)])
                    ELSE [prev EXCEPT ![i].rr = RatAdd(@, tradeRR)]
        dailyData == DailyData(Len(sortedTrades))
        RECURSIVE ChartData(_)
        ChartData(n) ==
            IF n = 0 THEN << >>
            ELSE LET prev == ChartData(n - 1)
                     cumulativeRR == IF n = 1 THEN RatZero ELSE prev[n - 1].value
                 IN Append(prev, [name |-> DayName(dailyData[n].name),
                                  value |-> RatAdd(cumulativeRR, dailyData[n].rr)])
    IN IF Len(sortedTrades) = 0 THEN << >>
       ELSE PrependStart(ChartData(Len(dailyData)))

\* the equity curve computed from the filtered records
cumulativeRRData_Filtered == cumulativeRRDataOf(filteredTrades)

cumulativeRRData == cumulativeRRDataOf(trades)

days == <<"Sunday", "Monday", "Tuesday", "Wednesday", "Thursday", "Friday", "Saturday">>

orderedDays == <<"Monday", "Tuesday", "Wednesday", "Thursday", "Friday">>

\* day.substring(0, 3)
Substring3(day) ==
    CASE day = "Sunday" -> "Sun"
      [] day = "Monday" -> "Mon"
      [] day = "Tuesday" -> "Tue"
      [] day = "Wednesday" -> "Wed"
      [] day = "Thursday" -> "Thu"
      [] day = "Friday" -> "Fri"
      [] day = "Saturday" -> "Sat"

\* the object dailyStats after the forEach over trades
dailyStatsOf(ts) ==
    LET RECURSIVE Stats(_)
        Stats(n) ==
            IF n = 0 THEN [day \in Range(days) |-> [wins |-> 0, losses |-> 0, trades |-> 0]]
            ELSE LET prev == Stats(n - 1)
                     trade == ts[n]
                     dayName == days[dayIndexOf(trade) + 1]
                 IN IF trade.outcome = NO_TRADE THEN prev
                    ELSE [prev EXCEPT ![dayName] =
                            [wins |-> @.wins + (IF trade.outcome = TP THEN 1 ELSE 0),
                             losses |-> @.losses + (IF trade.outcome = SL THEN 1 ELSE 0),
                             trades |-> @.trades + 1]]
    IN Stats(Len(ts))

dailyStats == dailyStatsOf(trades)

\* the day's win rate without the guard: 0 / 0 is NaN, written <<0, 0>>
dayWinRateOf_Unguarded(wins, losses) ==
    IF wins + losses = 0 THEN <<0, 0>> ELSE Rat(wins * 100, wins + losses)

\* (wins + losses > 0) ? (wins / (wins + losses)) * 100 : 0
dayWinRateOf(wins, losses) ==
    IF wins + losses > 0 THEN Rat(wins * 100, wins + losses) ELSE RatZero

performanceByDayDataOf(ts) ==
    [i \in DOMAIN orderedDays |->
        LET day == orderedDays[i]
            s == dailyStatsOf(ts)[day]
        IN [name |-> Substring3(day),
            winRate |-> dayWinRateOf(s.wins, s.losses),
            Trades |-> s.trades]]

performanceByDayData == performanceByDayDataOf(trades)


(***************************************************************************)
(* SlSweepAnalyzer and analyzeSlSweepsWithAI                               *)
(***************************************************************************)
\* component state after mount; request is the generateContent call of
\* the mounted component, calls and sent are the collaborator invocations
\* of its latest analyzeSlSweepsWithAI run, orphans counts the calls in
\* flight whose component has been unmounted
initialSweep ==
    [isLoading |-> FALSE, analysis |-> null, error |-> null,
     request |-> "none", calls |-> 0, sent |-> << >>, orphans |-> 0]

\* the component is unmounted: its state is gone, its call stays in flight
Unmounted(s) ==
    [initialSweep EXCEPT
        !.orphans = s.orphans + (IF s.request = "pending" THEN 1 ELSE 0)]

\* text.trim(): the text without its leading and trailing spaces
Trim(text) ==
    LET RECURSIVE TrimStart(_)
        TrimStart(t) ==
            IF t # << >> /\ Head(t) = " " THEN TrimStart(Tail(t)) ELSE t
        RECURSIVE TrimEnd(_)
        TrimEnd(t) ==
            IF t # << >> /\ t[Len(t)] = " " THEN TrimEnd(SubSeq(t, 1, Len(t) - 1)) ELSE t
    IN TrimEnd(TrimStart(text))

\* the notes list keeping the notes that are only spaces
slSweepNotesOf_Untrimmed(ts) ==
    LET kept == SelectSeq(ts, LAMBDA trade :
                    IsSet(trade.slSweepNotes) /\ Val(trade.slSweepNotes) # << >>)
    IN [i \in DOMAIN kept |-> <<"-", " ">> \o Val(kept[i].slSweepNotes)]

\* trades.filter(trade => trade.slSweepNotes && trade.slSweepNotes.trim() !== '')
\*       .map(trade => `- ${trade.slSweepNotes}`)
slSweepNotesOf(ts) ==
    LET kept == SelectSeq(ts, LAMBDA trade :
                    /\ IsSet(trade.slSweepNotes)
                    /\ Val(trade.slSweepNotes) # << >>
                    /\ Trim(Val(trade.slSweepNotes)) # << >>)
    IN [i \in DOMAIN kept |-> <<"-", " ">> \o Val(kept[i].slSweepNotes)]

\* slSweepNotes.length < 3
MinSweepNotes == 3

ApiKeyError == "API_KEY environment variable not set"

NotEnoughNotes == "There aren't enough 'SL Sweep Notes' to perform a meaningful analysis. Please add more detailed notes to your losing trades to use this feature."

SweepFallback == "Sorry, I encountered an error while analyzing your SL sweep notes. Please check the console for details."

ResponseText == "response.text"

SweepCallError == "Error calling Gemini API for SL sweep analysis:"

\* the Start Analysis button: handleAnalyze runs analyzeSlSweepsWithAI up to
\* its throw, its early return or its generateContent call; a promise that
\* is settled at once is handled before any other event, so the states
\* between are not kept
handleAnalyze ==
    /\ currentView = "ai_analyzer"
    /\ activeTab = "slSweep"
    /\ ~sweep.isLoading
    /\ ~IsSet(sweep.analysis)
    /\ sweep' =
          IF ~apiKey
          THEN [sweep EXCEPT !.isLoading = FALSE, !.analysis = null,
                             !.error = Some(ApiKeyError),
                             !.request = "none", !.calls = 0, !.sent = << >>]
          ELSE IF Len(slSweepNotesOf(trades)) < MinSweepNotes
          THEN [sweep EXCEPT !.isLoading = FALSE, !.analysis = Some(NotEnoughNotes),
                             !.error = null,
                             !.request = "none", !.calls = 0, !.sent = << >>]
          ELSE [sweep EXCEPT !.isLoading = TRUE, !.analysis = null, !.error = null,
                             !.request = "pending", !.calls = 1,
                             !.sent = slSweepNotesOf(trades)]
    /\ UNCHANGED <<trades, tz, filters, sortConfig, apiKey, currentView, activeTab,
                   localStorage, console, chat, form>>

\* generateContent resolves: return response.text, setAnalysis(result)
SweepResolved ==
    /\ sweep.request = "pending"
    /\ sweep' = [sweep EXCEPT !.request = "none", !.isLoading = FALSE,
                              !.analysis = Some(ResponseText)]
    /\ UNCHANGED <<trades, tz, filters, sortConfig, apiKey, currentView, activeTab,
                   localStorage, console, chat, form>>

\* generateContent rejects: the catch logs and returns the fallback text
SweepRejected ==
    /\ sweep.request = "pending"
    /\ sweep' = [sweep EXCEPT !.request = "none", !.isLoading = FALSE,
                              !.analysis = Some(SweepFallback)]
    /\ console' = console \cup {SweepCallError}
    /\ UNCHANGED <<trades, tz, filters, sortConfig, apiKey, currentView, activeTab,
                   localStorage, chat, form>>

\* the call of a component that is gone resolves: the setState of the
\* handler has no effect
OrphanResolved ==
    /\ sweep.orphans > 0
    /\ sweep' = [sweep EXCEPT !.orphans = @ - 1]
    /\ UNCHANGED <<trades, tz, filters, sortConfig, apiKey, currentView, activeTab,
                   localStorage, console, chat, form>>

\* the call of a component that is gone rejects: the catch logs, the
\* setState of the handler has no effect
OrphanRejected ==
    /\ sweep.orphans > 0
    /\ sweep' = [sweep EXCEPT !.orphans = @ - 1]
    /\ console' = console \cup {SweepCallError}
    /\ UNCHANGED <<trades, tz, filters, sortConfig, apiKey, currentView, activeTab,
                   localStorage, chat, form>>

\* the Run New Analysis link: setAnalysis(null)
RunNewAnalysis ==
    /\ currentView = "ai_analyzer"
    /\ activeTab = "slSweep"
    /\ ~sweep.isLoading
    /\ IsSet(sweep.analysis)
    /\ sweep' = [sweep EXCEPT !.analysis = null]
    /\ UNCHANGED <<trades, tz, filters, sortConfig, apiKey, currentView, activeTab,
                   localStorage, console, chat, form>>

(***************************************************************************)
(* ChatAnalyzer and analyzeTradesWithAI                                    *)
(***************************************************************************)
\* component state after mount; the text of a message is a sequence of
\* strings: the characters of a prompt, or a fixed text in one piece;
\* request, calls and orphans are as in the sweep analyzer
initialChat ==
    [prompt |-> << >>, messages |-> << >>, isLoading |-> FALSE,
     request |-> "none", calls |-> 0, orphans |-> 0]

\* the component is unmounted: its state is gone, its call stays in flight
UnmountedChat(c) ==
    [initialChat EXCEPT
        !.orphans = c.orphans + (IF c.request = "pending" THEN 1 ELSE 0)]

ChatFallback == "Sorry, I encountered an error while analyzing your trades. Please check the console for details."

ConnectionTrouble == "I'm having trouble connecting to my analysis server. Please try again later."

ChatCallError == "Error calling Gemini API:"

Message(sender, text) == [sender |-> sender, text |-> text]

\* the input and the suggestion buttons: setPrompt
setPrompt(text) ==
    /\ currentView = "ai_analyzer"
    /\ activeTab = "chat"
    /\ ~chat.isLoading
    /\ chat' = [chat EXCEPT !.prompt = text]
    /\ UNCHANGED <<trades, tz, filters, sortConfig, apiKey, sweep, currentView,
                   activeTab, localStorage, console, form>>

\* the chat after handleSubmit caught the throw of analyzeTradesWithAI
chatAfterThrow(c) ==
    [c EXCEPT !.messages = c.messages \o <<Message("user", c.prompt),
                                           Message("ai", <<ConnectionTrouble>>)>>,
              !.prompt = << >>, !.isLoading = FALSE,
              !.request = "none", !.calls = 0]

\* the chat after handleSubmit started the generateContent call
chatAfterCall(c) ==
    [c EXCEPT !.messages = Append(c.messages, Message("user", c.prompt)),
              !.prompt = << >>, !.isLoading = TRUE,
              !.request = "pending", !.calls = 1]

\* ChatAnalyzer.handleSubmit, run with analyzeTradesWithAI up to its throw
\* or its generateContent call
handleChatSubmit ==
    /\ currentView = "ai_analyzer"
    /\ activeTab = "chat"
    /\ Len(chat.messages) < 2 * MaxPrompts
    /\ IF Trim(chat.prompt) = << >> \/ chat.isLoading
       THEN UNCHANGED <<chat, console>>
       ELSE IF ~apiKey
       THEN /\ chat' = chatAfterThrow(chat)
            /\ console' = console \cup {ApiKeyError}
       ELSE /\ chat' = chatAfterCall(chat)
            /\ UNCHANGED console
    /\ UNCHANGED <<trades, tz, filters, sortConfig, apiKey, sweep, currentView,
                   activeTab, localStorage, form>>

\* the answer is added and the loading flag is left set
ChatResolved_StillLoading ==
    /\ chat.request = "pending"
    /\ chat' = [chat EXCEPT !.request = "none",
                            !.messages = Append(@, Message("ai", <<ResponseText>>))]
    /\ UNCHANGED <<trades, tz, filters, sortConfig, apiKey, sweep, currentView,
                   activeTab, localStorage, console, form>>

\* generateContent resolves: return response.text, the ai message is added
ChatResolved ==
    /\ chat.request = "pending"
    /\ chat' = [chat EXCEPT !.request = "none", !.isLoading = FALSE,
                            !.messages = Append(@, Message("ai", <<ResponseText>>))]
    /\ UNCHANGED <<trades, tz, filters, sortConfig, apiKey, sweep, currentView,
                   activeTab, localStorage, console, form>>

\* generateContent rejects and analyzeTradesWithAI lets the error through:
\* the catch of handleSubmit logs it and adds its own text
ChatRejected_Thrown ==
    /\ chat.request = "pending"
    /\ chat' = [chat EXCEPT !.request = "none", !.isLoading = FALSE,
                            !.messages = Append(@, Message("ai", <<ConnectionTrouble>>))]
    /\ console' = console \cup {ChatCallError}
    /\ UNCHANGED <<trades, tz, filters, sortConfig, apiKey, sweep, currentView,
                   activeTab, localStorage, form>>

\* generateContent rejects: the catch logs and returns the fallback text
ChatRejected ==
    /\ chat.request = "pending"
    /\ chat' = [chat EXCEPT !.request = "none", !.isLoading = FALSE,
                            !.messages = Append(@, Message("ai", <<ChatFallback>>))]
    /\ console' = console \cup {ChatCallError}
    /\ UNCHANGED <<trades, tz, filters, sortConfig, apiKey, sweep, currentView,
                   activeTab, localStorage, form>>

\* the call of a component that is gone resolves
ChatOrphanResolved ==
    /\ chat.orphans > 0
    /\ chat' = [chat EXCEPT !.orphans = @ - 1]
    /\ UNCHANGED <<trades, tz, filters, sortConfig, apiKey, sweep, currentView,
                   activeTab, localStorage, console, form>>

\* the call of a component that is gone rejects: the catch logs
ChatOrphanRejected ==
    /\ chat.orphans > 0
    /\ chat' = [chat EXCEPT !.orphans = @ - 1]
    /\ console' = console \cup {ChatCallError}
    /\ UNCHANGED <<trades, tz, filters, sortConfig, apiKey, sweep, currentView,
                   activeTab, localStorage, form>>

(***************************************************************************)
(* TradeForm                                                               *)
(***************************************************************************)
\* new Date().toISOString().split('T')[0] at mount: the day the model runs
Today == 0

ImageKeys == {"before", "after", "metatrader"}

NoImages == [key \in ImageKeys |-> null]

\* component state after mount; an input holds its text, the characters
\* of a number or a note, a time as one piece; reads counts the FileReader
\* reads in flight for each slot
initialForm ==
    [date |-> Today, outcome |-> TP, type |-> Some(BUY),
     slSize |-> << >>, tpSize |-> << >>, rangeSize |-> << >>, rr |-> << >>,
     activationTime |-> "", slSweepNotes |-> << >>, notes |-> "",
     images |-> NoImages, imagePreviews |-> NoImages, isUploading |-> FALSE,
     reads |-> [key \in ImageKeys |-> 0]]

\* a form that never takes the outcome for a no-trade day
isNoTradeDay_Never(f) == FALSE

\* const isNoTradeDay = outcome === Outcome.NO_TRADE
isNoTradeDay(f) == f.outcome = NO_TRADE

\* the inputs a no-trade day disables
DisabledInputs == {"type", "tpSize", "slSize", "rr", "activationTime", "slSweepNotes"}

\* the useEffect on [outcome, isNoTradeDay, type], run until it changes
\* nothing more
outcomeEffect(f) ==
    IF isNoTradeDay(f)
    THEN [f EXCEPT !.type = undefined, !.slSize = << >>, !.tpSize = << >>,
                   !.rr = << >>, !.activationTime = "", !.slSweepNotes = << >>,
                   !.images = NoImages, !.imagePreviews = NoImages]
    ELSE IF f.type = undefined THEN [f EXCEPT !.type = Some(BUY)]
    ELSE f

\* the outcome select: setOutcome, and the effect of the render it causes
setOutcome(outcome) ==
    /\ currentView = "add_trade"
    /\ form' = outcomeEffect([form EXCEPT !.outcome = outcome])
    /\ UNCHANGED <<trades, tz, filters, sortConfig, apiKey, sweep, currentView,
                   activeTab, localStorage, console, chat>>

\* the inputs of the form: the setter of one of them, called by its onChange
setInput(name, value) ==
    /\ currentView = "add_trade"
    /\ name \in DisabledInputs => ~isNoTradeDay(form)
    /\ form' = [form EXCEPT ![name] = value]
    /\ UNCHANGED <<trades, tz, filters, sortConfig, apiKey, sweep, currentView,
                   activeTab, localStorage, console, chat>>

PendingReads(f) ==
    LET RECURSIVE Sum(_)
        Sum(K) == IF K = {} THEN 0
                  ELSE LET key == CHOOSE k \in K : TRUE
                       IN f.reads[key] + Sum(K \ {key})
    IN Sum(ImageKeys)

PreviewUrl == "blob:"

Base64String == "data:"

\* handleImageChange for a chosen file: the input of a slot is shown while
\* the slot has no preview
handleImageChange(key) ==
    /\ currentView = "add_trade"
    /\ ~isNoTradeDay(form)
    /\ form.imagePreviews[key] = null
    /\ PendingReads(form) < MaxReads
    /\ form' = [form EXCEPT !.isUploading = TRUE,
                            !.imagePreviews[key] = Some(PreviewUrl),
                            !.reads[key] = @ + 1]
    /\ UNCHANGED <<trades, tz, filters, sortConfig, apiKey, sweep, currentView,
                   activeTab, localStorage, console, chat>>

\* reader.onload
ReaderOnload(key) ==
    /\ form.reads[key] > 0
    /\ form' = [form EXCEPT !.images[key] = Some(Base64String),
                            !.isUploading = FALSE,
                            !.reads[key] = @ - 1]
    /\ UNCHANGED <<trades, tz, filters, sortConfig, apiKey, sweep, currentView,
                   activeTab, localStorage, console, chat>>

ConvertError == "Error converting file to base64"

\* reader.onerror
ReaderOnerror(key) ==
    /\ form.reads[key] > 0
    /\ form' = [form EXCEPT !.isUploading = FALSE, !.reads[key] = @ - 1]
    /\ console' = console \cup {ConvertError}
    /\ UNCHANGED <<trades, tz, filters, sortConfig, apiKey, sweep, currentView,
                   activeTab, localStorage, chat>>

\* the button on a preview: clearImage
clearImage(key) ==
    /\ currentView = "add_trade"
    /\ ~isNoTradeDay(form)
    /\ form.imagePreviews[key] # null
    /\ form' = [form EXCEPT !.images[key] = null, !.imagePreviews[key] = null]
    /\ UNCHANGED <<trades, tz, filters, sortConfig, apiKey, sweep, currentView,
                   activeTab, localStorage, console, chat>>

\* text ? parseFloat(text) : undefined
OptionalNumber(text) == IF text # << >> THEN Some(ParseFloat(text)) ELSE undefined

\* the record handleSubmit builds from the state of the form
tradeDataOf(f) ==
    IF ~isNoTradeDay(f)
    THEN [date |-> f.date, outcome |-> f.outcome, notes |-> f.notes,
          rangeSize |-> OptionalNumber(f.rangeSize),
          images |-> {key \in ImageKeys : f.images[key] # null},
          type |-> f.type,
          slSize |-> OptionalNumber(f.slSize),
          tpSize |-> OptionalNumber(f.tpSize),
          rr |-> OptionalNumber(f.rr),
          activationTime |-> IF f.activationTime # "" THEN Some(f.activationTime)
                             ELSE undefined,
          slSweepNotes |-> IF f.slSweepNotes # << >> THEN Some(f.slSweepNotes)
                           ELSE undefined]
    ELSE [date |-> f.date, outcome |-> f.outcome, notes |-> f.notes,
          rangeSize |-> OptionalNumber(f.rangeSize),
          images |-> {key \in ImageKeys : f.images[key] # null},
          type |-> undefined, slSize |-> undefined, tpSize |-> undefined,
          rr |-> undefined, activationTime |-> undefined, slSweepNotes |-> undefined]

(***************************************************************************)
(* App, Header, AiAnalyzer: views and tabs                                 *)
(***************************************************************************)
View == {"dashboard", "add_trade", "ai_analyzer"}

AnalyzerTab == {"chat", "slSweep"}

\* a view other than the current one unmounts the current view's
\* components, and the one shown is mounted with its initial state
setCurrentView(view) ==
    /\ (view # currentView /\ sweep.request = "pending") => sweep.orphans < MaxOrphans
    /\ (view # currentView /\ chat.request = "pending") => chat.orphans < MaxOrphans
    /\ currentView' = view
    /\ IF view = currentView
       THEN UNCHANGED <<filters, sortConfig, sweep, activeTab, chat, form>>
       ELSE /\ filters' = initialFilters
            /\ sortConfig' = initialSortConfig
            /\ activeTab' = "chat"
            /\ sweep' = Unmounted(sweep)
            /\ chat' = UnmountedChat(chat)
            /\ form' = initialForm
    /\ UNCHANGED <<trades, tz, apiKey, localStorage, console>>

setActiveTab(tab) ==
    /\ currentView = "ai_analyzer"
    /\ (tab # activeTab /\ sweep.request = "pending") => sweep.orphans < MaxOrphans
    /\ (tab # activeTab /\ chat.request = "pending") => chat.orphans < MaxOrphans
    /\ activeTab' = tab
    /\ sweep' = IF tab = activeTab THEN sweep ELSE Unmounted(sweep)
    /\ chat' = IF tab = activeTab THEN chat ELSE UnmountedChat(chat)
    /\ UNCHANGED <<trades, tz, filters, sortConfig, apiKey, currentView,
                   localStorage, console, form>>

\* TradeForm.handleSubmit for the record built from the inputs: refused
\* with an alert while isUploading, else addTrade, whose render runs the
\* save effect, then onTradeAdded shows the dashboard and the form is
\* unmounted
handleSubmit(tradeData) ==
    /\ currentView = "add_trade"
    /\ IF form.isUploading
       THEN UNCHANGED vars
       ELSE /\ addTrade(tradeData)
            /\ SaveEffect
            /\ currentView' = "dashboard"
            /\ form' = initialForm
            /\ UNCHANGED <<tz, filters, sortConfig, apiKey, sweep, activeTab, chat>>

\* the Add Trade button on the form as it stands
SubmitForm == handleSubmit(tradeDataOf(form))

\* the Dashboard and Add Trade buttons of the header
ShowJournal == \E view \in {"dashboard", "add_trade"} : setCurrentView(view)

(***************************************************************************)
(* Specifications                                                          *)
(***************************************************************************)
TzOffsets == (-MaxTz)..MaxTz

\* the components after mount, in an environment with some timezone
InitView ==
    /\ tz \in TzOffsets
    /\ filters = initialFilters
    /\ sortConfig = initialSortConfig
    /\ sweep = initialSweep
    /\ chat = initialChat
    /\ form = initialForm
    /\ currentView = "dashboard"
    /\ activeTab = "chat"

\* a storage with room for every collection of the model, after the save
\* effect of the first render wrote the collection
InitSaved ==
    /\ localStorage = [trades |-> Some(JSONStringify(trades)), quota |-> undefined]
    /\ console = {}

\* the state after construction with nothing saved, API credential left open
InitApp ==
    /\ trades = << >>
    /\ InitView
    /\ InitSaved

\* the credential is configured; the analysis specification draws it
Init ==
    /\ InitApp
    /\ apiKey = TRUE

OptionalOf(S) == {undefined} \cup {Some(v) : v \in S}

\* Collections of records on a few days with the ways a risk multiple
\* arises: the risk totals and the equity curve.
StatsKinds ==
    { <<NO_TRADE, undefined, undefined, undefined>>,
      <<BE, undefined, undefined, undefined>>,
      <<BE, Some(2), undefined, undefined>>,
      <<SL, undefined, undefined, undefined>>,
      <<SL, Some(2), undefined, undefined>>,
      <<TP, undefined, undefined, undefined>>,
      <<TP, Some(2), undefined, undefined>>,
      <<TP, undefined, Some(2), Some(3)>> }

StatsInputs ==
    { TradeData(date, kind[1], BUY, kind[3], kind[4], kind[2]) :
        date \in 0..MaxStatsDay, kind \in StatsKinds }

AddTrade ==
    /\ Len(trades) < MaxTrades
    /\ \E tradeData \in StatsInputs : handleSubmit(tradeData)

Next == AddTrade \/ DeleteTrade \/ ShowJournal

Spec == Init /\ [][Next]_vars

\* Collections without a decided record, or with few: the zero fallbacks of
\* the ratios.
FallbackKinds ==
    { <<NO_TRADE, undefined>>,
      <<BE, undefined>>,
      <<BE, Some(2)>>,
      <<SL, undefined>>,
      <<TP, undefined>> }

FallbackInputs ==
    { TradeData(date, kind[1], BUY, undefined, undefined, kind[2]) :
        date \in 0..MaxStatsDay, kind \in FallbackKinds }

AddFallbackTrade ==
    /\ Len(trades) < MaxTrades
    /\ \E tradeData \in FallbackInputs : handleSubmit(tradeData)

NextFallbacks == AddFallbackTrade \/ DeleteTrade \/ ShowJournal

SpecFallbacks == Init /\ [][NextFallbacks]_vars

\* Larger collections of records that differ in outcome only: the counts
\* and the win rate.
OutcomeInputs ==
    { TradeData(0, outcome, BUY, undefined, undefined, undefined) : outcome \in Outcome }

AddOutcomeTrade ==
    /\ Len(trades) < MaxOutcomeTrades
    /\ \E tradeData \in OutcomeInputs : handleSubmit(tradeData)

NextOutcomes == AddOutcomeTrade \/ DeleteTrade \/ ShowJournal

SpecOutcomes == Init /\ [][NextOutcomes]_vars

\* One record at a time, every combination of the fields the risk multiple
\* is computed from.
ResolverInputs ==
    { TradeData(0, outcome, BUY, slSize, tpSize, rr) :
        outcome \in Outcome,
        slSize \in OptionalOf((-1)..MaxSize),
        tpSize \in OptionalOf(0..MaxSize),
        rr \in OptionalOf(0..MaxRR) }

AddResolverTrade ==
    /\ trades = << >>
    /\ \E tradeData \in ResolverInputs : handleSubmit(tradeData)

NextResolver == AddResolverTrade \/ DeleteTrade \/ ShowJournal

SpecResolver == Init /\ [][NextResolver]_vars

\* Records on every weekday of more than one week, in every timezone offset.
CalendarInputs ==
    { TradeData(date, outcome, BUY, undefined, undefined, undefined) :
        date \in 0..MaxDay, outcome \in Outcome }

AddCalendarTrade ==
    /\ Len(trades) < MaxCalTrades
    /\ \E tradeData \in CalendarInputs : handleSubmit(tradeData)

NextCalendar == AddCalendarTrade \/ DeleteTrade \/ ShowJournal

SpecCalendar == Init /\ [][NextCalendar]_vars

\* Records on the days around a week boundary (day 3 is a Sunday), with
\* risk multiples of every origin: the order of the series.
SeriesInputs ==
    { TradeData(date, kind[1], BUY, kind[3], kind[4], kind[2]) :
        date \in 0..MaxSeriesDay,
        kind \in { <<NO_TRADE, undefined, undefined, undefined>>,
                   <<BE, Some(2), undefined, undefined>>,
                   <<SL, undefined, undefined, undefined>>,
                   <<TP, undefined, Some(2), Some(3)>> } }

AddSeriesTrade ==
    /\ Len(trades) < MaxSeriesTrades
    /\ \E tradeData \in SeriesInputs : handleSubmit(tradeData)

NextSeries == AddSeriesTrade \/ DeleteTrade \/ ShowJournal

SpecSeries == Init /\ [][NextSeries]_vars

\* Records with every range size around the bucket bounds, and the range
\* filter set to each of its options.
RangeInputs ==
    { TradeDataWith(TradeData(0, outcome, BUY, undefined, undefined, undefined),
                    rangeSize, "", << >>) :
        outcome \in {TP, NO_TRADE}, rangeSize \in OptionalOf((-1)..MaxRange) }

AddRangeTrade ==
    /\ Len(trades) < MaxRangeTrades
    /\ \E tradeData \in RangeInputs : handleSubmit(tradeData)

SelectRange == \E option \in Range(rangeOptions) : handleFilterChange("rangeSize", option)

NextRange == AddRangeTrade \/ DeleteTrade \/ SelectRange \/ resetFilters \/ ShowJournal

SpecRange == Init /\ [][NextRange]_vars

\* Records in which each sortable column has absent, equal and different
\* values, and the table sorted by every column in both directions.
SortInputs ==
    { TradeDataWith(TradeData(date, kind[1], kind[2], undefined, undefined, kind[3]),
                    kind[4], kind[5], << >>) :
        date \in 0..1,
        kind \in { <<NO_TRADE, BUY, undefined, undefined, "">>,
                   <<TP, BUY, Some(2), Some(5), "09:00">>,
                   <<SL, SELL, undefined, Some(10), "10:30">>,
                   <<BE, BUY, Some(0), undefined, "">> } }

AddSortTrade ==
    /\ Len(trades) < MaxSortTrades
    /\ \E tradeData \in SortInputs : handleSubmit(tradeData)

RequestSort == \E key \in SortableKeys : requestSort(key)

NextSort == AddSortTrade \/ DeleteTrade \/ RequestSort \/ ShowJournal

SpecSort == Init /\ [][NextSort]_vars

\* A few records, every filter switched between 'all' and a value that
\* excludes some of them, and the table sorted by two of its columns.
ViewInputs ==
    { TradeDataWith(TradeData(kind[1], kind[2], kind[3], undefined, undefined, kind[4]),
                    kind[5], "", << >>) :
        kind \in { <<0, TP, BUY, Some(2), Some(5)>>,
                   <<1, SL, SELL, undefined, undefined>>,
                   <<0, NO_TRADE, BUY, undefined, undefined>> } }

ViewFilterValues ==
    [startDate |-> {undefined, Some(1)},
     endDate |-> {undefined, Some(0)},
     outcome |-> {"all", TP, SL},
     type |-> {"all", BUY},
     rangeSize |-> {RangeAll, rangeOptions[3]},
     dayOfWeek |-> {"all", "4"}]

AddViewTrade ==
    /\ Len(trades) < MaxViewTrades
    /\ \E tradeData \in ViewInputs : handleSubmit(tradeData)

ChangeFilter ==
    \E name \in DOMAIN ViewFilterValues :
        \E value \in ViewFilterValues[name] : handleFilterChange(name, value)

RequestViewSort == \E key \in {"date", "rr"} : requestSort(key)

NextView ==
    \/ AddViewTrade
    \/ DeleteTrade
    \/ ChangeFilter
    \/ resetFilters
    \/ RequestViewSort
    \/ ShowJournal

SpecView == Init /\ [][NextView]_vars

\* Losing trades with a sweep note that is absent, only a space, or a
\* padded word, in an environment with or without the API credential; the
\* sweep analysis is started, answered, failed and abandoned.
SweepInputs ==
    { TradeDataWith(TradeData(0, SL, BUY, undefined, undefined, undefined),
                    undefined, "", slSweepNotes) :
        slSweepNotes \in { << >>, <<" ">>, <<" ", "a">> } }

AddSweepTrade ==
    /\ Len(trades) < MaxSweepTrades
    /\ \E tradeData \in SweepInputs : handleSubmit(tradeData)

ShowView == \E view \in View : setCurrentView(view)

ShowTab == \E tab \in AnalyzerTab : setActiveTab(tab)

InitSweep ==
    /\ InitApp
    /\ apiKey \in BOOLEAN

NextSweep ==
    \/ AddSweepTrade
    \/ ShowView
    \/ ShowTab
    \/ handleAnalyze
    \/ SweepResolved
    \/ SweepRejected
    \/ OrphanResolved
    \/ OrphanRejected
    \/ RunNewAnalysis

SpecSweep == InitSweep /\ [][NextSweep]_vars

\* Both analyzers, with and without the API credential, over a saved
\* collection that is empty or holds three losing trades with sweep notes:
\* prompts are typed and submitted, the sweep analysis is started, calls
\* are answered or fail, and the user changes tab and view meanwhile.
AnalyzerCollections ==
    LET noted == TradeDataWith(TradeData(0, SL, BUY, undefined, undefined, undefined),
                               undefined, "", <<"a">>)
    IN { << >>, [i \in 1..MinSweepNotes |-> WithId(noted, i)] }

Prompts == { << >>, <<" ">>, <<"q">> }

TypePrompt == \E text \in Prompts : setPrompt(text)

InitAnalyzers ==
    /\ trades \in AnalyzerCollections
    /\ InitView
    /\ InitSaved
    /\ apiKey \in BOOLEAN

NextAnalyzers ==
    \/ ShowView
    \/ ShowTab
    \/ handleAnalyze
    \/ SweepResolved
    \/ SweepRejected
    \/ OrphanResolved
    \/ OrphanRejected
    \/ RunNewAnalysis
    \/ TypePrompt
    \/ handleChatSubmit
    \/ ChatResolved
    \/ ChatRejected
    \/ ChatOrphanResolved
    \/ ChatOrphanRejected

SpecAnalyzers == InitAnalyzers /\ [][NextAnalyzers]_vars

\* The same with the collaborator settling every call it was given: the
\* promise of generateContent is resolved or rejected in the end. Nothing
\* is asked of the user, who may stop at any moment.
SpecChatLive ==
    /\ InitAnalyzers
    /\ [][NextAnalyzers]_vars
    /\ WF_vars(ChatResolved \/ ChatRejected)

\* The journal over a storage with or without room: records are added and
\* deleted, the page is loaded again, and between two loads the stored item
\* may be removed or replaced by a text that is not JSON.
Quotas == {undefined} \cup {Some(q) : q \in 1..MaxQuota}

InitPersist ==
    /\ trades = << >>
    /\ InitView
    /\ localStorage \in {[trades |-> Some(JSONStringify(trades)), quota |-> q] :
                            q \in Quotas}
    /\ console = {}
    /\ apiKey = TRUE

PersistInputs ==
    { TradeData(date, TP, BUY, undefined, undefined, undefined) :
        date \in 0..MaxPersistDay }

AddPersistTrade ==
    /\ Len(trades) < MaxPersistTrades
    /\ \E tradeData \in PersistInputs : handleSubmit(tradeData)

\* the page is loaded: the initializer reads the stored item, the
\* components mount with their initial state, and the save effect of the
\* first render writes the collection
Reload ==
    /\ trades' = initialTrades(localStorage.trades)
    /\ localStorage' = savedStorage(localStorage, trades')
    /\ console' = initialConsole(localStorage.trades)
                    \cup (IF SetItemThrows(localStorage, trades')
                          THEN {SaveError} ELSE {})
    /\ filters' = initialFilters
    /\ sortConfig' = initialSortConfig
    /\ sweep' = initialSweep
    /\ chat' = initialChat
    /\ form' = initialForm
    /\ currentView' = "dashboard"
    /\ activeTab' = "chat"
    /\ UNCHANGED <<tz, apiKey>>

\* the stored item is removed outside the program
StorageCleared ==
    /\ localStorage.trades # null
    /\ localStorage' = [localStorage EXCEPT !.trades = null]
    /\ UNCHANGED <<trades, tz, filters, sortConfig, apiKey, sweep, currentView,
                   activeTab, console, chat, form>>

\* the stored item is replaced outside the program by a text that is not JSON
StorageCorrupted ==
    /\ localStorage.trades # Some(Unreadable)
    /\ localStorage' = [localStorage EXCEPT !.trades = Some(Unreadable)]
    /\ UNCHANGED <<trades, tz, filters, sortConfig, apiKey, sweep, currentView,
                   activeTab, console, chat, form>>

NextPersist ==
    \/ AddPersistTrade
    \/ DeleteTrade
    \/ ShowJournal
    \/ Reload
    \/ StorageCleared
    \/ StorageCorrupted

SpecPersist == InitPersist /\ [][NextPersist]_vars

\* The form, one record at a time: the outcome is selected and the inputs a
\* no-trade day disables are filled and emptied in any order, then the
\* record is submitted.
FormOutcomes == {TP, SL, NO_TRADE}

SelectOutcome == \E outcome \in FormOutcomes : setOutcome(outcome)

FormEdits ==
    {<<"type", Some(BUY)>>, <<"type", Some(SELL)>>} \cup
    {<<name, text>> : name \in {"slSize", "tpSize", "rr"}, text \in {<< >>, <<"2">>}} \cup
    {<<"activationTime", time>> : time \in {"", "09:30"}} \cup
    {<<"slSweepNotes", text>> : text \in {<< >>, <<"a">>}}

EditInput == \E edit \in FormEdits : setInput(edit[1], edit[2])

SubmitOne ==
    /\ trades = << >>
    /\ SubmitForm

NextFormFields == SelectOutcome \/ EditInput \/ SubmitOne \/ DeleteTrade \/ ShowJournal

SpecFormFields == Init /\ [][NextFormFields]_vars

\* The form and its images: files are chosen for the slots, their reads end
\* or fail in any order, previews are cleared, the outcome is changed, and
\* the record is submitted at any moment.
SelectImage == \E key \in ImageKeys : handleImageChange(key)

ImageRead == \E key \in ImageKeys : ReaderOnload(key)

ImageFailed == \E key \in ImageKeys : ReaderOnerror(key)

ClearImage == \E key \in ImageKeys : clearImage(key)

ChangeOutcome == \E outcome \in {TP, NO_TRADE} : setOutcome(outcome)

NextFormImages ==
    \/ SelectImage
    \/ ImageRead
    \/ ImageFailed
    \/ ClearImage
    \/ ChangeOutcome
    \/ SubmitOne
    \/ DeleteTrade
    \/ ShowJournal

SpecFormImages == Init /\ [][NextFormImages]_vars

\* A saved collection is loaded: records as JSON.parse returns them, which
\* may be NO_TRADE records carrying risk fields; no-trade days are then
\* added through the form and records deleted.
StoredKinds ==
    { <<NO_TRADE, undefined, undefined, undefined, undefined>>,
      <<NO_TRADE, Some(2), undefined, undefined, Some(BUY)>>,
      <<NO_TRADE, undefined, Some(1), Some(2), Some(SELL)>>,
      <<TP, undefined, Some(2), Some(3), Some(BUY)>>,
      <<SL, undefined, undefined, undefined, Some(SELL)>>,
      <<BE, Some(2), undefined, undefined, Some(BUY)>> }

StoredRecords ==
    { [date |-> date, outcome |-> kind[1], notes |-> "", rangeSize |-> undefined,
       images |-> {}, type |-> kind[5], slSize |-> kind[3], tpSize |-> kind[4],
       rr |-> kind[2], activationTime |-> undefined, slSweepNotes |-> undefined] :
        date \in 0..MaxStatsDay, kind \in StoredKinds }

\* what the save effect can have written: date descending, distinct ids
StoredCollections ==
    LET seqs == UNION { [1..n -> StoredRecords] : n \in 0..MaxStored }
        saved == { q \in seqs : \A i \in DOMAIN q : \A j \in DOMAIN q :
                                    i < j => q[i].date >= q[j].date }
    IN { [i \in DOMAIN q |-> WithId(q[i], i)] : q \in saved }

InitStored ==
    /\ trades \in StoredCollections
    /\ InitView
    /\ InitSaved
    /\ apiKey = TRUE

AddNoTradeDay ==
    /\ Len(trades) <= MaxStored
    /\ \E date \in 0..MaxStatsDay :
          handleSubmit(TradeData(date, NO_TRADE, BUY, undefined, undefined, undefined))

NextStored == AddNoTradeDay \/ DeleteTrade \/ ShowJournal

SpecStored == InitStored /\ [][NextStored]_vars

(***************************************************************************)
(* Claims                                                                  *)
(***************************************************************************)
\* the last point of the equity curve
LastPoint == cumulativeRRData[Len(cumulativeRRData)]

\* the records of the collection that satisfy Pred, by position
Positions(Pred(_)) == {i \in DOMAIN trades : Pred(trades[i])}

\* C1: a STOP_LOSS record has risk multiple exactly -1 in the summary
\* statistics and in the equity curve, whatever its override and distances;
\* a collection holding only that record totals -1 in both views.
C1_StopLossIsMinusOne ==
    /\ \A i \in DOMAIN trades :
          trades[i].outcome = SL =>
              /\ statsTradeRR(trades[i]) = RatInt(-1)
              /\ curveTradeRR(trades[i]) = RatInt(-1)
    /\ (Len(trades) = 1 /\ trades[1].outcome = SL) =>
          /\ stats.totalRREarned = RatInt(-1)
          /\ LastPoint.value = RatInt(-1)

C1_Witness ==
    \E i \in DOMAIN trades :
        /\ trades[i].outcome = SL
        /\ trades[i].rr = Some(2)
        /\ trades[i].slSize = Some(1)
        /\ trades[i].tpSize = Some(2)

\* the risk multiple the precedence chain of C2 prescribes for a record
\* whose outcome is not STOP_LOSS
ChainValue(trade) ==
    IF IsSet(trade.rr) THEN RatInt(Val(trade.rr))
    ELSE IF /\ trade.outcome = TP
            /\ IsSet(trade.slSize)
            /\ IsSet(trade.tpSize)
            /\ Val(trade.slSize) > 0
    THEN Rat(Val(trade.tpSize), Val(trade.slSize))
    ELSE RatZero

\* C2: for a record whose outcome is not STOP_LOSS the risk multiple is the
\* override when one is set (0 included), else takeProfitDistance /
\* stopLossDistance for a TAKE_PROFIT with both distances and a positive
\* stop-loss distance, else 0; both views use that value.
C2_PrecedenceChain ==
    /\ \A i \in DOMAIN trades :
          trades[i].outcome # SL =>
              /\ statsTradeRR(trades[i]) = ChainValue(trades[i])
              /\ curveTradeRR(trades[i]) = ChainValue(trades[i])
    /\ (Len(trades) = 1 /\ trades[1].outcome # SL) =>
          /\ stats.totalRREarned = ChainValue(trades[1])
          /\ trades[1].outcome # NO_TRADE => LastPoint.value = ChainValue(trades[1])

C2_Witness ==
    \E i \in DOMAIN trades :
        /\ trades[i].outcome = TP
        /\ trades[i].rr = Some(0)
        /\ trades[i].slSize = Some(1)
        /\ trades[i].tpSize = Some(2)

C4_Original ==
    /\ Len(cumulativeRRData) >= 1
    /\ cumulativeRRData[1] = [name |-> StartName, value |-> RatZero]

\* C4, amended: the equity curve starts with the point named Start with
\* value 0 when the collection holds a record that is not NO_TRADE, and has
\* no point at all otherwise.
C4_StartPoint ==
    LET curve == cumulativeRRData
    IN IF Positions(LAMBDA t : t.outcome # NO_TRADE) # {}
       THEN /\ Len(curve) >= 2
            /\ curve[1] = [name |-> StartName, value |-> RatZero]
            /\ \A i \in 2..Len(curve) : curve[i].name # StartName
       ELSE curve = << >>

C4_Witness ==
    /\ Positions(LAMBDA t : t.outcome = NO_TRADE) # {}
    /\ Positions(LAMBDA t : t.outcome # NO_TRADE) # {}
    /\ cumulativeRRData[1].name = StartName

\* the weekday (0 = Sunday .. 6 = Saturday) of a calendar day
WeekdayOfDay(day) == (day + 4) % 7

\* C5: in every timezone the weekday index of a record, in the day-of-week
\* aggregation and in the weekday filter, is the weekday of its date: the
\* record is counted in that day's entry and passes the filter for that
\* value only.
C5_WeekdayOfDate ==
    \A i \in DOMAIN trades :
        /\ dayIndexOf(trades[i]) = WeekdayOfDay(trades[i].date)
        /\ \A v \in 0..6 :
              dayOfWeekFilter(trades[i], v) <=> v = WeekdayOfDay(trades[i].date)
        /\ trades[i].outcome # NO_TRADE =>
              dailyStats[days[WeekdayOfDay(trades[i].date) + 1]].trades >= 1

\* C6: in every timezone a TAKE_PROFIT / STOP_LOSS record is counted in the
\* weekly series under a key that is a Sunday, not later than the record's
\* day and at most 6 days before it.
C6_WeekKeyIsSunday ==
    \A i \in DOMAIN trades :
        trades[i].outcome \in {TP, SL} =>
            LET weekKey == weekKeyOf(trades[i])
            IN /\ \E k \in DOMAIN weeklyWinRateData :
                      weeklyWinRateData[k].name = weekKey
               /\ WeekdayOfDay(weekKey) = 0
               /\ weekKey <= trades[i].date
               /\ trades[i].date - weekKey <= 6

\* C7: in every timezone, for a TAKE_PROFIT / STOP_LOSS record, the day key
\* of the daily series equals the week key plus the day-of-week index.
C7_GroupingsAgree ==
    \A i \in DOMAIN trades :
        trades[i].outcome \in {TP, SL} =>
            dayKeyOf(trades[i]) = weekKeyOf(trades[i]) + dayIndexOf(trades[i])

\* C8: the day-of-week output has the 5 entries Monday..Friday in that
\* order; each entry counts exactly the non-NO_TRADE records dated on that
\* weekday (so weekend records are counted nowhere and a day without
\* records shows zero trades and win rate 0).
C8_FiveWeekdays ==
    /\ Len(performanceByDayData) = 5
    /\ [i \in 1..5 |-> performanceByDayData[i].name]
          = <<"Mon", "Tue", "Wed", "Thu", "Fri">>
    /\ \A i \in 1..5 :
          LET dated == Positions(LAMBDA t : t.outcome # NO_TRADE
                                            /\ WeekdayOfDay(t.date) = i)
          IN /\ performanceByDayData[i].Trades = Cardinality(dated)
             /\ dated = {} => performanceByDayData[i].winRate = RatZero

\* C9: totalTrades is the number of records whose outcome is not NO_TRADE,
\* which is wins + losses + breakEvens.
C9_TotalTrades ==
    /\ stats.totalTrades = Cardinality(Positions(LAMBDA t : t.outcome # NO_TRADE))
    /\ stats.totalTrades = stats.wins + stats.losses + stats.breakEvens

C9_Witness ==
    /\ Positions(LAMBDA t : t.outcome = NO_TRADE) # {}
    /\ Positions(LAMBDA t : t.outcome = BE) # {}
    /\ Positions(LAMBDA t : t.outcome = TP) # {}

\* the numbers of TAKE_PROFIT and of STOP_LOSS records
NumWins == Cardinality(Positions(LAMBDA t : t.outcome = TP))

NumLosses == Cardinality(Positions(LAMBDA t : t.outcome = SL))

\* C10 as stated: winRate equals wins / (wins + losses) * 100, and 0 when
\* wins + losses = 0 (winRate is a number of tenths).
C10_Original ==
    IF NumWins + NumLosses = 0 THEN stats.winRate = 0
    ELSE stats.winRate * (NumWins + NumLosses) = 1000 * NumWins

\* C10, amended: winRate is wins / (wins + losses) * 100 rounded to the
\* nearest tenth (it is the text with one decimal), wins and losses counting
\* TAKE_PROFIT and STOP_LOSS records only, and it is 0.0 when
\* wins + losses = 0.
C10_WinRateRounded ==
    IF NumWins + NumLosses = 0 THEN stats.winRate = 0
    ELSE LET n == NumWins + NumLosses
         IN /\ 2 * n * stats.winRate - n <= 2000 * NumWins
            /\ 2000 * NumWins <= 2 * n * stats.winRate + n

C10_Witness ==
    /\ NumWins = 1
    /\ NumLosses = 2
    /\ stats.winRate = 333

\* the risk multiple C1 and C2 prescribe for a record
ResolvedRR(trade) == IF trade.outcome = SL THEN RatInt(-1) ELSE ChainValue(trade)

\* the sum of the resolved risk multiples of the records at the positions
\* of a set
RECURSIVE SumResolved(_)
SumResolved(P) ==
    IF P = {} THEN RatZero
    ELSE LET i == CHOOSE j \in P : TRUE
         IN RatAdd(ResolvedRR(trades[i]), SumResolved(P \ {i}))

NumCounted == Cardinality(Positions(LAMBDA t : t.outcome # NO_TRADE))

\* C11: totalRREarned is the sum of the resolved risk multiples of the
\* records that are not NO_TRADE, and averageRR is totalRREarned divided by
\* the number of those records, 0 when there is none.
C11_TotalAndAverage ==
    LET total == stats.totalRREarned
        average == stats.averageRR
    IN /\ total = SumResolved(Positions(LAMBDA t : t.outcome # NO_TRADE))
       /\ IF NumCounted = 0 THEN average = RatZero
          ELSE average[1] * total[2] * NumCounted = total[1] * average[2]

C11_Witness ==
    /\ NumCounted = 2
    /\ Positions(LAMBDA t : t.outcome = NO_TRADE) = {}
    /\ stats.totalRREarned = Rat(1, 2)
    /\ stats.averageRR = Rat(1, 4)

\* a ratio is defined when its denominator is not 0
Defined(x) == x[2] > 0

OnlyOutcome(o) == \A i \in DOMAIN trades : trades[i].outcome = o

\* every ratio of the aggregations is defined, and the win rates of a
\* collection without decided records are their zero fallback
RatiosDefined ==
    LET weeks == weeklyWinRateData
        byDay == performanceByDayData
    IN /\ Defined(stats.averageRR)
       /\ \A i \in DOMAIN weeks : Defined(weeks[i].winRate)
       /\ \A i \in DOMAIN byDay : Defined(byDay[i].winRate)

WinRatesZero ==
    LET weeks == weeklyWinRateData
        byDay == performanceByDayData
    IN /\ stats.winRate = 0
       /\ \A i \in DOMAIN weeks : weeks[i].winRate = RatZero
       /\ \A i \in DOMAIN byDay : byDay[i].winRate = RatZero

\* C12 as stated: no ratio has a zero denominator, and for the empty
\* collection, a collection of only NO_TRADE records and a collection of
\* only BREAK_EVEN records the win rates and the average risk are 0.
C12_Original ==
    /\ RatiosDefined
    /\ (OnlyOutcome(NO_TRADE) \/ OnlyOutcome(BE)) =>
          (WinRatesZero /\ stats.averageRR = RatZero)

\* C12, amended: no ratio has a zero denominator; for the empty collection,
\* a collection of only NO_TRADE records and a collection of only
\* BREAK_EVEN records every win rate is its zero fallback; the average risk
\* is 0 for the first two, and for BREAK_EVEN records it is the mean of
\* their risk multiples, which an override makes non-zero.
C12_ZeroFallbacks ==
    /\ RatiosDefined
    /\ (OnlyOutcome(NO_TRADE) \/ OnlyOutcome(BE)) => WinRatesZero
    /\ OnlyOutcome(NO_TRADE) => stats.averageRR = RatZero
    /\ (OnlyOutcome(BE) /\ trades # << >>) =>
          stats.averageRR = RatDivInt(SumResolved(DOMAIN trades), Len(trades))

C12_Witness ==
    /\ Len(trades) = 2
    /\ OnlyOutcome(BE)
    /\ stats.averageRR = RatInt(1)
    /\ performanceByDayData[4].Trades = 2

\* the records of a collection that are not NO_TRADE, in order
Counted(ts) == SelectSeq(ts, LAMBDA t : t.outcome # NO_TRADE)

\* C13: the NO_TRADE records of a collection, whatever fields they carry,
\* do not count: totalTrades, wins, losses, breakEvens, winRate,
\* totalRREarned, averageRR, the weekly series, the daily TP/SL series, the
\* equity curve and the day-of-week output are those of the collection
\* without its NO_TRADE records, so adding or removing one changes none.
C13_NoTradeExcluded ==
    /\ stats = statsOf(Counted(trades))
    /\ weeklyWinRateData = weeklyWinRateDataOf(Counted(trades))
    /\ dailyTpslData = dailyTpslDataOf(Counted(trades))
    /\ cumulativeRRData = cumulativeRRDataOf(Counted(trades))
    /\ performanceByDayData = performanceByDayDataOf(Counted(trades))

\* a no-trade day was added to a stored NO_TRADE record with an override
\* and a decided record
C13_Witness ==
    /\ Len(trades) = 3
    /\ trades[1].outcome = NO_TRADE
    /\ trades[1].rr = undefined
    /\ trades[2].outcome = NO_TRADE
    /\ trades[2].rr = Some(2)
    /\ trades[3].outcome = TP
    /\ stats.totalTrades = 1

\* the orders the records of the collection can be held in
Orderings ==
    { [i \in DOMAIN trades |-> trades[f[i]]] : f \in Permutations(DOMAIN trades) }

\* the names of a series ascend strictly
Ascending(series) ==
    \A i \in DOMAIN series : \A j \in DOMAIN series :
        i < j => series[i].name < series[j].name

Decided(t) == t.outcome = TP \/ t.outcome = SL

\* C14: in whatever order the collection holds its records, the weekly
\* series, the daily TP/SL series and the equity curve after Start list
\* their buckets in strictly ascending order, one entry for each bucket
\* that has a record, and the value of an equity point is the sum of the
\* risk multiples of the non-NO_TRADE records dated on or before its day.
C14_SeriesOrdered ==
    \A ts \in Orderings :
        LET weekly == weeklyWinRateDataOf(ts)
            daily == dailyTpslDataOf(ts)
            curve == cumulativeRRDataOf(ts)
            points == [i \in 1..(Len(curve) - 1) |->
                         [name |-> curve[i + 1].name[2], value |-> curve[i + 1].value]]
        IN /\ Ascending(weekly)
           /\ {weekly[i].name : i \in DOMAIN weekly}
                = {weekKeyOf(trades[i]) : i \in Positions(Decided)}
           /\ Ascending(daily)
           /\ {daily[i].name : i \in DOMAIN daily}
                = {trades[i].date : i \in Positions(Decided)}
           /\ Ascending(points)
           /\ {points[i].name : i \in DOMAIN points}
                = {trades[i].date : i \in Positions(LAMBDA t : t.outcome # NO_TRADE)}
           /\ \A i \in DOMAIN points :
                 points[i].value =
                     SumResolved(Positions(LAMBDA t : /\ t.outcome # NO_TRADE
                                                      /\ t.date <= points[i].name))

\* a winning and a losing day of different weeks, held later day first
C14_Witness ==
    /\ Len(trades) = 2
    /\ trades[1].outcome = SL
    /\ trades[2].outcome = TP
    /\ trades[1].date > trades[2].date
    /\ Len(weeklyWinRateData) = 2
    /\ Len(dailyTpslData) = 2
    /\ LastPoint.value = Rat(1, 2)

\* C15: under every state of the filters and of the sort, the summary
\* statistics, the outcome distribution, the weekly series, the daily
\* series, the equity curve and the day-of-week output are those of the
\* full collection: the counts are the counts over all records and each
\* series is the series computed from the unfiltered collection.
C15_AggregationsUnfiltered ==
    /\ stats = statsOf(trades)
    /\ stats.totalTrades = NumCounted
    /\ stats.wins = NumWins
    /\ stats.losses = NumLosses
    /\ stats.totalRREarned = SumResolved(Positions(LAMBDA t : t.outcome # NO_TRADE))
    /\ \A i \in DOMAIN outcomeData :
          outcomeData[i].value =
              Cardinality(Positions(LAMBDA t :
                  \/ outcomeData[i].name = "Take Profit" /\ t.outcome = TP
                  \/ outcomeData[i].name = "Stop Loss" /\ t.outcome = SL
                  \/ outcomeData[i].name = "Break Even" /\ t.outcome = BE
                  \/ outcomeData[i].name = "No Trade Days" /\ t.outcome = NO_TRADE))
    /\ Len(outcomeData) = Cardinality({trades[i].outcome : i \in DOMAIN trades})
    /\ weeklyWinRateData = weeklyWinRateDataOf(trades)
    /\ dailyTpslData = dailyTpslDataOf(trades)
    /\ cumulativeRRData = cumulativeRRDataOf(trades)
    /\ cumulativeRRData # << >> =>
          LastPoint.value = SumResolved(Positions(LAMBDA t : t.outcome # NO_TRADE))
    /\ performanceByDayData = performanceByDayDataOf(trades)

\* the filters hide the only record and the table is sorted by another column
C15_Witness ==
    /\ Len(trades) = 1
    /\ trades[1].outcome = TP
    /\ filteredTrades = << >>
    /\ filters.outcome = SL
    /\ sortConfig = [key |-> "rr", direction |-> "descending"]
    /\ stats.totalTrades = 1

\* the bounds of the buckets of the range filter; no upper bound is << >>
BucketOf(option) ==
    CASE option = rangeOptions[2] -> [min |-> 0, max |-> Some(5)]
      [] option = rangeOptions[3] -> [min |-> 5, max |-> Some(10)]
      [] option = rangeOptions[4] -> [min |-> 10, max |-> Some(20)]
      [] option = rangeOptions[5] -> [min |-> 20, max |-> << >>]

\* C16: with a bucket other than 'all' selected a record is kept iff its
\* range size is present and min <= rangeSize < max, max being infinite for
\* the last bucket: a range size equal to the upper bound is excluded, and
\* so is a record without range size.
C16_HalfOpenBuckets ==
    filters.rangeSize # RangeAll =>
        \A engine \in SortEngines : \A i \in DOMAIN trades :
            LET kept == trades[i] \in Range(filteredAndSortedTrades(engine))
                bucket == BucketOf(filters.rangeSize)
                size == trades[i].rangeSize
            IN kept <=> /\ size # << >>
                        /\ bucket.min <= size[1]
                        /\ (bucket.max # << >> => size[1] < bucket.max[1])

\* a record whose range size is the upper bound of the selected bucket
C16_Witness ==
    /\ filters.rangeSize = rangeOptions[3]
    /\ Len(trades) = 1
    /\ trades[1].rangeSize = Some(10)
    /\ filteredTrades = << >>

\* C17: in the sorted table, for every sort key and both directions, no
\* record without a value for the key comes before a record with one.
C17_AbsentLast ==
    \A engine \in SortEngines :
        LET view == filteredAndSortedTrades(engine)
        IN \A i \in DOMAIN view : \A j \in DOMAIN view :
              (i < j /\ IsSet(ValueOf(view[j], sortConfig.key)))
                  => IsSet(ValueOf(view[i], sortConfig.key))

\* sorted descending by rr, the record with an override shown before the
\* one without, which the collection holds first
C17_Witness ==
    /\ sortConfig = [key |-> "rr", direction |-> "descending"]
    /\ Len(trades) = 2
    /\ trades[1].rr = undefined
    /\ trades[2].rr = Some(2)
    /\ \A engine \in SortEngines : filteredAndSortedTrades(engine)[1] = trades[2]

\* C18: sorting the sorted table again with the same key and direction
\* gives the same sequence, also when records have equal or absent values
\* for the key.
C18_SortIdempotent ==
    \A engine \in SortEngines :
        LET view == filteredAndSortedTrades(engine)
        IN sortTrades(engine, view, sortConfig) = view

\* C19: in every state reached by sort requests from (date, descending),
\* a request on the current key flips the direction and a request on
\* another key sets that key with direction ascending.
C19_SortRequests ==
    /\ sortConfig.key \in SortableKeys
    /\ sortConfig.direction \in {"ascending", "descending"}
    /\ \A key \in SortableKeys :
          LET requested == requestedSortConfig(sortConfig, key)
          IN /\ requested.key = key
             /\ IF sortConfig.key = key
                THEN requested.direction \in {"ascending", "descending"}
                                               \ {sortConfig.direction}
                ELSE requested.direction = "ascending"

\* rr requested twice after the initial (date, descending)
C19_Witness ==
    sortConfig = [key |-> "rr", direction |-> "descending"]

\* the notes that qualify: present and with a character that is not a
\* space, each as the list item the collaborator is sent
QualifyingNotes ==
    LET Qualifies(t) ==
            /\ t.slSweepNotes # << >>
            /\ \E k \in DOMAIN t.slSweepNotes[1] : t.slSweepNotes[1][k] # " "
        RECURSIVE Items(_)
        Items(n) ==
            IF n = 0 THEN << >>
            ELSE IF Qualifies(trades[n])
            THEN Append(Items(n - 1), <<"-", " ">> \o trades[n].slSweepNotes[1])
            ELSE Items(n - 1)
    IN Items(Len(trades))

\* what the claim says of a run of the analysis: below 3 qualifying notes
\* the fixed message and no call, else one call with the qualifying notes
GatedRun ==
    IF Len(QualifyingNotes) < 3
    THEN /\ sweep'.analysis = Some(NotEnoughNotes)
         /\ sweep'.calls = 0
         /\ sweep'.request = "none"
    ELSE /\ sweep'.calls = 1
         /\ sweep'.sent = QualifyingNotes
         /\ sweep'.request = "pending"

\* the settling of the call invokes the collaborator no further
NoFurtherCall ==
    (SweepResolved \/ SweepRejected) =>
        /\ sweep'.calls = sweep.calls
        /\ sweep'.sent = sweep.sent
        /\ sweep'.request = "none"

\* C20 as stated: every run of the sweep analysis with fewer than 3
\* qualifying notes returns the fixed message without invoking the
\* collaborator, and with 3 or more invokes it exactly once with exactly
\* the qualifying notes.
C20_Original ==
    [][ (handleAnalyze => GatedRun) /\ NoFurtherCall ]_vars

\* C20, amended: the same of every run in an environment in which the API
\* credential is set; without it the run fails with the configuration
\* error before the notes are looked at and invokes nothing.
C20_NotesGate ==
    [][ /\ (handleAnalyze /\ apiKey) => GatedRun
        /\ (handleAnalyze /\ ~apiKey) =>
              /\ sweep'.error = Some(ApiKeyError)
              /\ sweep'.analysis = null
              /\ sweep'.calls = 0
              /\ sweep'.request = "none"
        /\ NoFurtherCall ]_vars

\* three records, one note only a space: the run returned the fixed message
C20_Witness ==
    /\ apiKey
    /\ Len(trades) = 3
    /\ Len(QualifyingNotes) = 2
    /\ \E i \in DOMAIN trades : trades[i].slSweepNotes = Some(<<" ">>)
    /\ sweep.analysis = Some(NotEnoughNotes)
    /\ sweep.calls = 0

\* the calls to the analysis collaborator that have not returned
Outstanding ==
    (IF sweep.request = "pending" THEN 1 ELSE 0) + sweep.orphans
    + (IF chat.request = "pending" THEN 1 ELSE 0) + chat.orphans

\* C21: at any time at most one analysis request is outstanding, whatever
\* the user does between the start of a request and its return.
C21_OneRequest == Outstanding <= 1

\* the texts of the messages the chat analyzer shows from the ai
AiTexts == {chat.messages[i].text : i \in {j \in DOMAIN chat.messages :
                                            chat.messages[j].sender = "ai"}}

\* C22: without the API credential no call is made by either analysis,
\* each fails at once with the configuration error, and what the user is
\* shown, in the sweep analyzer and in the chat analyzer, is that
\* configuration error and not a fallback text.
C22_ConfigurationError ==
    ~apiKey =>
        /\ Outstanding = 0
        /\ sweep.calls = 0 /\ chat.calls = 0
        /\ sweep.analysis = null
        /\ sweep.error \in {null, Some(ApiKeyError)}
        /\ AiTexts \subseteq {<<ApiKeyError>>}

\* the failed call of the mounted sweep analyzer: nothing thrown, the one
\* call made, no other started, the fallback text shown
SweepFailureReported ==
    /\ sweep.calls = 1
    /\ sweep' = [sweep EXCEPT !.request = "none", !.isLoading = FALSE,
                              !.analysis = Some(SweepFallback)]
    /\ sweep'.error = null
    /\ chat' = chat

\* the same of the mounted chat analyzer: the fallback text is the one
\* message added
ChatFailureReported ==
    /\ chat.calls = 1
    /\ chat' = [chat EXCEPT !.request = "none", !.isLoading = FALSE,
                            !.messages = Append(chat.messages,
                                                Message("ai", <<ChatFallback>>))]
    /\ sweep' = sweep

\* C23 as stated: whenever a call to the collaborator fails, nothing is
\* thrown, no other call is made, and the fallback text of the operation
\* is shown to the user once.
C23_Original ==
    [][ /\ (SweepRejected \/ OrphanRejected) => SweepFailureReported
        /\ (ChatRejected \/ ChatOrphanRejected) => ChatFailureReported ]_vars

\* C23, amended: the same when the analyzer that made the call is still
\* mounted; when the user has left it, the operation returns its fallback
\* text as well, no other call is made, and nothing is shown: neither
\* analyzer changes but for the call being over.
C23_FailureReportedOnce ==
    [][ /\ SweepRejected => SweepFailureReported
        /\ ChatRejected => ChatFailureReported
        /\ OrphanRejected =>
              /\ sweep' = [sweep EXCEPT !.orphans = sweep.orphans - 1]
              /\ chat' = chat
        /\ ChatOrphanRejected =>
              /\ chat' = [chat EXCEPT !.orphans = chat.orphans - 1]
              /\ sweep' = sweep ]_vars

\* the chat shows the fallback text as the answer to the prompt
C23_Witness ==
    /\ Len(chat.messages) = 2
    /\ chat.messages[2] = Message("ai", <<ChatFallback>>)
    /\ chat.calls = 1
    /\ chat.request = "none"
    /\ ChatCallError \in console

AddOrDelete == AddPersistTrade \/ DeleteTrade

\* C25 as stated: after every add and every delete the stored form is the
\* in-memory collection, and a restart would load what the user sees.
C25_Original ==
    [][ AddOrDelete =>
          /\ localStorage'.trades = Some(JSONStringify(trades'))
          /\ initialTrades(localStorage'.trades) = trades' ]_vars

\* C25, amended: the same after every add and delete whose write the
\* storage accepts; when the storage refuses the write, the failure is
\* logged, the collection in memory is the new one and the stored form
\* keeps the value it had.
C25_StoredWhenAccepted ==
    [][ AddOrDelete =>
          IF SetItemThrows(localStorage, trades')
          THEN /\ localStorage' = localStorage
               /\ SaveError \in console'
          ELSE /\ localStorage'.trades = Some(JSONStringify(trades'))
               /\ initialTrades(localStorage'.trades) = trades'
               /\ console' = console ]_vars

\* a record was added and written, and a restart would load it
C25_Witness ==
    /\ Len(trades) = 1
    /\ localStorage.trades = Some(JSONStringify(trades))
    /\ initialTrades(localStorage.trades) = trades
    /\ console = {}

\* the indices of the records whose id is not the given one
KeptIndices(id) == {k \in DOMAIN trades : trades[k].id # id}

\* C26: deleting by id removes exactly the records with that id: each
\* other record is kept unchanged at the place its rank among the kept ones
\* gives it, and an id no record has leaves the collection as it is.
C26_DeleteById ==
    \A id \in 0..(Len(trades) + 2) :
        LET kept == KeptIndices(id)
            r == withoutTrade(trades, id)
        IN /\ Len(r) = Cardinality(kept)
           /\ \A k \in kept : r[Cardinality({m \in kept : m <= k})] = trades[k]
           /\ (kept = DOMAIN trades) => r = trades

\* the first of two records was deleted; the other kept its id
C26_Witness ==
    /\ Len(trades) = 1
    /\ trades[1].id = 2
    /\ localStorage.trades = Some(JSONStringify(trades))

\* C29: the collection is ordered by date, latest first.
C29_DateDescending ==
    \A i \in DOMAIN trades : \A j \in DOMAIN trades :
        i < j => trades[i].date >= trades[j].date

\* a record added later than another stands before it, its date being later
C29_Witness ==
    /\ Len(trades) = 2
    /\ trades[1].date > trades[2].date
    /\ trades[1].id > trades[2].id

\* C27: a record submitted with the outcome NO_TRADE carries no direction,
\* no stop or target distance, no risk multiple override, no activation
\* time and no sweep notes, whatever the inputs held and in whatever order
\* they were edited.
C27_NoTradeCarriesNothing ==
    \A i \in DOMAIN trades :
        trades[i].outcome = NO_TRADE =>
            \A key \in DisabledInputs : trades[i][key] = undefined

\* a no-trade day was submitted and the form is open again with inputs filled
C27_Witness ==
    /\ Len(trades) = 1
    /\ trades[1].outcome = NO_TRADE
    /\ trades[1].type = undefined
    /\ currentView = "add_trade"
    /\ form.slSize # << >>

\* the slots showing a preview: a file was chosen and not cleared
SelectedImages == {key \in ImageKeys : form.imagePreviews[key] # null}

\* C28: a record is submitted only when no image is being read, and it
\* holds the image of every slot chosen and not cleared.
C28_NoSubmitWhileReading ==
    [][ (SubmitOne /\ trades' # trades) =>
            /\ PendingReads(form) = 0
            /\ SelectedImages \subseteq trades'[1].images ]_vars

\* the chat analyzer is shown
ChatMounted == currentView = "ai_analyzer" /\ activeTab = "chat"

\* the n-th prompt was accepted and its call is outstanding
Accepted(n) ==
    /\ ChatMounted
    /\ Len(chat.messages) = 2 * n - 1
    /\ chat.isLoading

\* the n-th prompt has its answer and the loading flag is cleared
Answered(n) ==
    /\ ChatMounted
    /\ Len(chat.messages) >= 2 * n
    /\ chat.messages[2 * n].sender = "ai"
    /\ chat.messages[2 * n - 1].sender = "user"
    /\ ~chat.isLoading

\* the messages are a user's and an ai's in turn
Alternating ==
    \A i \in DOMAIN chat.messages :
        chat.messages[i].sender = (IF i % 2 = 1 THEN "user" ELSE "ai")

\* a submit with a blank prompt or while loading changes nothing
NoSubmitBlankOrLoading ==
    [][ (Trim(chat.prompt) = << >> \/ chat.isLoading) => ~handleChatSubmit ]_vars

\* C30 as stated: every accepted prompt is answered in the end, with one
\* ai message after its user message and the loading flag cleared; the
\* messages alternate, and a blank or untimely submit changes nothing.
C30_Original ==
    /\ \A n \in 1..MaxPrompts : Accepted(n) ~> Answered(n)
    /\ []Alternating
    /\ NoSubmitBlankOrLoading

\* C30, amended: the same as long as the chat analyzer stays shown; when
\* the user changes tab or view while the call is outstanding, the
\* conversation is discarded and the prompt gets no answer.
C30_AnsweredWhileShown ==
    /\ \A n \in 1..MaxPrompts : Accepted(n) ~> (Answered(n) \/ ~ChatMounted)
    /\ []Alternating
    /\ NoSubmitBlankOrLoading

\* the prompt was answered by the collaborator's text
C30_Witness ==
    /\ Answered(1)
    /\ chat.messages[2].text = <<ResponseText>>
    /\ chat.request = "none"
    /\ chat.prompt = << >>

====
